---- MODULE Spec2Model ----
(***************************************************************************)
(* Inbound group sessions ("room keys") of matrix-sdk-crypto and their     *)
(* escrow in the server-side key backup.                                   *)
(*                                                                         *)
(*   crates/matrix-sdk-crypto/src/olm/group_sessions/inbound.rs            *)
(*   crates/matrix-sdk-crypto/src/backups/keys/backup.rs                   *)
(*                                                                         *)
(* The vodozemac ratchet is an external collaborator: it is modelled by    *)
(* its contract (a signing key that names the session, the index of the    *)
(* initial ratchet, the index of the most advanced ratchet).  The model is *)
(* built with the `experimental-algorithms` feature on, so both Megolm     *)
(* variants exist.                                                         *)
(***************************************************************************)
EXTENDS Integers, Sequences, FiniteSets, TLC

VARIABLES
    inbox,      \* the key-bearing record waiting to be turned into a session
    sessions,   \* the InboundGroupSession objects built so far
    made,       \* history: for each object, the constructor call that built it
    cells,      \* the Arc<Mutex<InnerSession>> cells: the ratchet in each
    lock,       \* for each cell, the task holding its tokio Mutex (0: free)
    flags,      \* the Arc<AtomicBool> cells of `backed_up`
    tasks,      \* each task's position in the async operation it runs
    err,        \* the error of the last failed construction
    backup_key, \* the MegolmV1BackupKey in use: its Arc<InnerBackupKey>
    envelope,   \* the EncryptedSessionData on its way to or from the server
    signed,     \* history: the key and the envelope of the last sign()
    verdict     \* the key and the result of the last sign() or verify()

vars == <<inbox, sessions, made, cells, lock, flags, tasks, err,
          backup_key, envelope, signed, verdict>>

backup_vars == <<backup_key, envelope, signed, verdict>>

(***************************************************************************)
(* Bounds                                                                  *)
(***************************************************************************)
MaxIndex == 1       \* message indices are 0..MaxIndex
MaxSessions == 2    \* session objects built in one behaviour
NumTasks == 2       \* tasks of the concurrent specification

(***************************************************************************)
(* Option<T>                                                               *)
(***************************************************************************)
None == [some |-> FALSE]
Some(x) == [some |-> TRUE, val |-> x]

\* No backup key has been built and no envelope is under way.
NoBackup ==
    /\ backup_key = None
    /\ envelope = None
    /\ signed = None
    /\ verdict = None

(***************************************************************************)
(* Value universes                                                         *)
(***************************************************************************)
Keys == {1, 2}
Indices == 0 .. MaxIndex
SessionKeys == [key : Keys, index : Indices]
Rooms == {"!a:localhost", "!b:localhost"}
Curve25519Keys == {"curveA", "curveB"}
Ed25519Keys == {"edA", "edB"}
MegolmV1AesSha2 == "m.megolm.v1.aes-sha2"
MegolmV2AesSha2 == "m.megolm.v2.aes-sha2"
UnknownAlgorithm == "m.unknown"
Algorithms == {MegolmV1AesSha2, MegolmV2AesSha2, UnknownAlgorithm}
HistoryVisibilities == {None, Some("shared")}
UnauthenticatedSources == {None, Some("Forwarded"), Some("Undefined")}

SigningKeysOf(ed) == [ed25519 |-> ed]
SigningKeyMaps == {SigningKeysOf(ed) : ed \in Ed25519Keys}

(***************************************************************************)
(* KeySource                                                               *)
(***************************************************************************)
Direct == [tag |-> "Direct"]
Backup(u) == [tag |-> "Backup", unauthenticated |-> u]
Forward == [tag |-> "Forward"]
OldStyleImport == [tag |-> "OldStyleImport"]
KeySources == {Direct, Forward, OldStyleImport} \cup {Backup(u) : u \in UnauthenticatedSources}

(***************************************************************************)
(* The vodozemac ratchet (InnerSession), by its contract                   *)
(***************************************************************************)
SessionIdOf(k) == IF k = 1 THEN "sid-one" ELSE "sid-two"
SessionIds == {SessionIdOf(k) : k \in Keys}

SessionConfigDefault == "V1"

InnerNew(session_key, config) ==
    [key |-> session_key.key, initial |-> session_key.index,
     latest |-> session_key.index, config |-> config]

InnerImport(session_key, config) ==
    [key |-> session_key.key, initial |-> session_key.index,
     latest |-> session_key.index, config |-> config]

InnerSessionId(r) == SessionIdOf(r.key)

InnerFirstKnownIndex(r) == r.initial

InnerExportAt(r, index) ==
    IF index >= r.initial THEN Some([key |-> r.key, index |-> index]) ELSE None

InnerPickle(r) == [key |-> r.key, initial |-> r.initial, config |-> r.config]

InnerFromPickle(p) ==
    [key |-> p.key, initial |-> p.initial, latest |-> p.initial, config |-> p.config]

InnerCompare(a, b) ==
    IF a.key # b.key THEN "Unconnected"
    ELSE IF a.initial < b.initial THEN "Better"
    ELSE IF a.initial > b.initial THEN "Worse"
    ELSE "Equal"

session_config(algorithm) ==
    IF algorithm = MegolmV1AesSha2 THEN Some("V1")
    ELSE IF algorithm = MegolmV2AesSha2 THEN Some("V2")
    ELSE None

(***************************************************************************)
(* Results of the fallible constructors                                    *)
(***************************************************************************)
Ok(v) == [ok |-> TRUE, val |-> v]
Err(e) == [ok |-> FALSE, err |-> e]

(***************************************************************************)
(* Constructors.  A constructed value carries the ratchet that goes into   *)
(* its fresh Mutex (`inner`) and the value of its fresh AtomicBool         *)
(* (`backed_up`); the action that installs it allocates the two cells.     *)
(***************************************************************************)
new(sender_key, signing_key, room_id, session_key, encryption_algorithm, history_visibility) ==
    LET config == session_config(encryption_algorithm) IN
    IF ~config.some THEN Err([type |-> "Algorithm", algorithm |-> encryption_algorithm])
    ELSE LET session == InnerNew(session_key, config.val) IN
         Ok([inner |-> session,
             history_visibility |-> history_visibility,
             session_id |-> InnerSessionId(session),
             first_known_index |-> InnerFirstKnownIndex(session),
             creator_info |-> [curve25519_key |-> sender_key,
                               signing_keys |-> SigningKeysOf(signing_key)],
             room_id |-> room_id,
             key_source |-> Direct,
             algorithm |-> encryption_algorithm,
             backed_up |-> FALSE])

try_from_ExportedRoomKey(key) ==
    LET config == session_config(key.algorithm) IN
    IF ~config.some THEN Err([type |-> "Algorithm", algorithm |-> key.algorithm])
    ELSE LET session == InnerImport(key.session_key, config.val) IN
         Ok([inner |-> session,
             session_id |-> key.session_id,
             creator_info |-> [curve25519_key |-> key.sender_key,
                               signing_keys |-> key.sender_claimed_keys],
             history_visibility |-> None,
             first_known_index |-> InnerFirstKnownIndex(session),
             room_id |-> key.room_id,
             key_source |-> OldStyleImport,
             algorithm |-> key.algorithm,
             backed_up |-> FALSE])

from_export_AsDirect(exported_session) ==
    LET res == try_from_ExportedRoomKey(exported_session) IN
    IF res.ok THEN Ok([res.val EXCEPT !.key_source = Direct]) ELSE res

from_export(exported_session) == try_from_ExportedRoomKey(exported_session)

\* from_backup with the restored session taken as backed up already.
from_backup_BackedUp(room_id, backup) ==
    LET session == InnerImport(backup.session_key, SessionConfigDefault)
        session_id == InnerSessionId(session)
        res == from_export([algorithm |-> backup.algorithm,
                            room_id |-> room_id,
                            sender_key |-> backup.sender_key,
                            session_id |-> session_id,
                            forwarding_curve25519_key_chain |-> <<>>,
                            session_key |-> backup.session_key,
                            sender_claimed_keys |-> backup.sender_claimed_keys])
    IN IF ~res.ok THEN res
       ELSE Ok([res.val EXCEPT !.key_source = Backup(backup.unauthenticated),
                               !.backed_up = TRUE])

from_backup(room_id, backup) ==
    LET session == InnerImport(backup.session_key, SessionConfigDefault)
        session_id == InnerSessionId(session)
        res == from_export([algorithm |-> backup.algorithm,
                            room_id |-> room_id,
                            sender_key |-> backup.sender_key,
                            session_id |-> session_id,
                            forwarding_curve25519_key_chain |-> <<>>,
                            session_key |-> backup.session_key,
                            sender_claimed_keys |-> backup.sender_claimed_keys])
    IN IF ~res.ok THEN res
       ELSE Ok([res.val EXCEPT !.key_source = Backup(backup.unauthenticated)])

from_ForwardedMegolmV1AesSha2Content(value) ==
    LET session == InnerImport(value.session_key, "V1") IN
    [inner |-> session,
     session_id |-> InnerSessionId(session),
     creator_info |-> [curve25519_key |-> value.claimed_sender_key,
                       signing_keys |-> SigningKeysOf(value.claimed_ed25519_key)],
     history_visibility |-> None,
     first_known_index |-> InnerFirstKnownIndex(session),
     room_id |-> value.room_id,
     key_source |-> Forward,
     algorithm |-> MegolmV1AesSha2,
     backed_up |-> FALSE]

from_ForwardedMegolmV2AesSha2Content(value) ==
    LET session == InnerImport(value.session_key, "V2") IN
    [inner |-> session,
     session_id |-> InnerSessionId(session),
     creator_info |-> [curve25519_key |-> value.claimed_sender_key,
                       signing_keys |-> value.claimed_signing_keys],
     history_visibility |-> None,
     first_known_index |-> InnerFirstKnownIndex(session),
     room_id |-> value.room_id,
     key_source |-> Forward,
     algorithm |-> MegolmV1AesSha2,
     backed_up |-> FALSE]

try_from_DecryptedForwardedRoomKeyEvent_DefaultAlgorithm(value) ==
    IF value.content.variant = "MegolmV1AesSha2"
    THEN Ok(from_ForwardedMegolmV1AesSha2Content(value.content))
    ELSE IF value.content.variant = "MegolmV2AesSha2"
    THEN Ok(from_ForwardedMegolmV2AesSha2Content(value.content))
    ELSE Err([type |-> "Algorithm", algorithm |-> MegolmV1AesSha2])

try_from_DecryptedForwardedRoomKeyEvent(value) ==
    IF value.content.variant = "MegolmV1AesSha2"
    THEN Ok(from_ForwardedMegolmV1AesSha2Content(value.content))
    ELSE IF value.content.variant = "MegolmV2AesSha2"
    THEN Ok(from_ForwardedMegolmV2AesSha2Content(value.content))
    ELSE Err([type |-> "Algorithm", algorithm |-> value.content.algorithm])

\* from_pickle with the flag of a new session.
from_pickle_FlagCleared(pickle) ==
    LET session == InnerFromPickle(pickle.pickle)
        first_known_index == InnerFirstKnownIndex(session)
        session_id == InnerSessionId(session)
    IN Ok([inner |-> session,
           session_id |-> session_id,
           creator_info |-> [curve25519_key |-> pickle.sender_key,
                             signing_keys |-> pickle.signing_key],
           history_visibility |-> pickle.history_visibility,
           first_known_index |-> first_known_index,
           room_id |-> pickle.room_id,
           backed_up |-> FALSE,
           algorithm |-> pickle.algorithm,
           key_source |-> pickle.key_source])

from_pickle(pickle) ==
    LET session == InnerFromPickle(pickle.pickle)
        first_known_index == InnerFirstKnownIndex(session)
        session_id == InnerSessionId(session)
    IN Ok([inner |-> session,
           session_id |-> session_id,
           creator_info |-> [curve25519_key |-> pickle.sender_key,
                             signing_keys |-> pickle.signing_key],
           history_visibility |-> pickle.history_visibility,
           first_known_index |-> first_known_index,
           room_id |-> pickle.room_id,
           backed_up |-> pickle.backed_up,
           algorithm |-> pickle.algorithm,
           key_source |-> pickle.key_source])

(***************************************************************************)
(* Loading a persisted record: serde parses it into the permissive         *)
(* PickledInboundGroupSessionIn, try_from normalises it.                   *)
(***************************************************************************)
\* The `match (val.imported, val.key_source)` of try_from.
migrate_key_source_TrueIsDirect(imported, key_source) ==
    IF imported = Some(FALSE) /\ key_source = None THEN Ok(Direct)
    ELSE IF imported = Some(TRUE) /\ key_source = None THEN Ok(Direct)
    ELSE IF imported = None /\ key_source.some THEN Ok(key_source.val)
    ELSE IF imported = None /\ key_source = None THEN Err("missing field: key_source")
    ELSE Err("imported and key_source cannot both be provided")

migrate_key_source_PrefersKeySource(imported, key_source) ==
    IF key_source.some THEN Ok(key_source.val)
    ELSE IF imported = Some(FALSE) THEN Ok(Direct)
    ELSE IF imported = Some(TRUE) THEN Ok(OldStyleImport)
    ELSE Ok(Direct)

migrate_key_source(imported, key_source) ==
    IF imported = Some(FALSE) /\ key_source = None THEN Ok(Direct)
    ELSE IF imported = Some(TRUE) /\ key_source = None THEN Ok(OldStyleImport)
    ELSE IF imported = None /\ key_source.some THEN Ok(key_source.val)
    ELSE IF imported = None /\ key_source = None THEN Err("missing field: key_source")
    ELSE Err("imported and key_source cannot both be provided")

try_from_PickledInboundGroupSessionIn(val) ==
    LET key_source == migrate_key_source(val.imported, val.key_source) IN
    IF ~key_source.ok THEN key_source
    ELSE Ok([pickle |-> val.pickle,
             sender_key |-> val.sender_key,
             signing_key |-> val.signing_key,
             room_id |-> val.room_id,
             key_source |-> key_source.val,
             backed_up |-> val.backed_up,
             history_visibility |-> val.history_visibility,
             algorithm |-> val.algorithm])

\* #[derive(Serialize)] of PickledInboundGroupSession, read back by serde as a
\* PickledInboundGroupSessionIn: `key_source` is written, `imported` is not.
PickledInboundGroupSessionIn_of(p) ==
    [pickle |-> p.pickle,
     sender_key |-> p.sender_key,
     signing_key |-> p.signing_key,
     room_id |-> p.room_id,
     imported |-> None,
     key_source |-> Some(p.key_source),
     backed_up |-> p.backed_up,
     history_visibility |-> p.history_visibility,
     algorithm |-> p.algorithm]

\* serde_json::from_str::<PickledInboundGroupSession> and from_pickle.
load(val) ==
    LET pickled == try_from_PickledInboundGroupSessionIn(val) IN
    IF ~pickled.ok THEN Err([type |-> "Deserialize", message |-> pickled.err])
    ELSE from_pickle(pickled.val)

(***************************************************************************)
(* Accessors                                                               *)
(***************************************************************************)
has_been_imported_BackupForgotten(s) ==
    IF s.key_source = Direct \/ s.key_source.tag = "Backup" THEN FALSE ELSE TRUE

has_been_imported(s) == IF s.key_source = Direct THEN FALSE ELSE TRUE

(***************************************************************************)
(* The synchronous part of the operations that lock the ratchet: what each *)
(* computes from the session `s`, its ratchet `r` and its flag `b` once    *)
(* the lock is held.                                                       *)
(***************************************************************************)
Max(a, b) == IF a >= b THEN a ELSE b

pickle(s, r, b) ==
    [pickle |-> InnerPickle(r),
     sender_key |-> s.creator_info.curve25519_key,
     signing_key |-> s.creator_info.signing_keys,
     room_id |-> s.room_id,
     key_source |-> s.key_source,
     backed_up |-> b,
     history_visibility |-> s.history_visibility,
     algorithm |-> s.algorithm]

export_at_index_AtFloor(s, r, index) ==
    LET session_key == InnerExportAt(r, s.first_known_index)
    IN IF ~session_key.some THEN [panic |-> TRUE]
       ELSE [panic |-> FALSE,
             algorithm |-> s.algorithm,
             room_id |-> s.room_id,
             sender_key |-> s.creator_info.curve25519_key,
             session_id |-> s.session_id,
             forwarding_curve25519_key_chain |-> <<>>,
             sender_claimed_keys |-> s.creator_info.signing_keys,
             session_key |-> session_key.val]

export_at_index_Unclamped(s, r, index) ==
    LET session_key == InnerExportAt(r, index)
    IN IF ~session_key.some THEN [panic |-> TRUE]
       ELSE [panic |-> FALSE,
             algorithm |-> s.algorithm,
             room_id |-> s.room_id,
             sender_key |-> s.creator_info.curve25519_key,
             session_id |-> s.session_id,
             forwarding_curve25519_key_chain |-> <<>>,
             sender_claimed_keys |-> s.creator_info.signing_keys,
             session_key |-> session_key.val]

\* `expect("Can't export session")` panics when the ratchet refuses the index.
export_at_index(s, r, index) ==
    LET message_index == Max(s.first_known_index, index)
        session_key == InnerExportAt(r, message_index)
    IN IF ~session_key.some THEN [panic |-> TRUE]
       ELSE [panic |-> FALSE,
             algorithm |-> s.algorithm,
             room_id |-> s.room_id,
             sender_key |-> s.creator_info.curve25519_key,
             session_id |-> s.session_id,
             forwarding_curve25519_key_chain |-> <<>>,
             sender_claimed_keys |-> s.creator_info.signing_keys,
             session_key |-> session_key.val]

export(s, r) == export_at_index(s, r, s.first_known_index)

\* impl From<ExportedRoomKey> for BackedUpRoomKey: the record without its room
\* id and session id, and with no unauthenticated hint yet.
BackedUpRoomKey_from(k) ==
    [algorithm |-> k.algorithm,
     sender_key |-> k.sender_key,
     session_key |-> k.session_key,
     sender_claimed_keys |-> k.sender_claimed_keys,
     forwarding_curve25519_key_chain |-> k.forwarding_curve25519_key_chain,
     unauthenticated |-> None]

\* The `match &self.key_source` of to_backup: the hint the record is given.
to_backup_unauthenticated_Forwarded(key_source) ==
    CASE key_source.tag = "Direct" -> None
      [] key_source.tag = "Backup" -> key_source.unauthenticated
      [] key_source.tag = "Forward" -> Some("Undefined")
      [] key_source.tag = "OldStyleImport" -> Some("Undefined")

to_backup_unauthenticated_Dropped(key_source) ==
    CASE key_source.tag = "Direct" -> None
      [] key_source.tag = "Backup" -> None
      [] key_source.tag = "Forward" -> Some("Forwarded")
      [] key_source.tag = "OldStyleImport" -> Some("Undefined")

to_backup_unauthenticated(key_source) ==
    CASE key_source.tag = "Direct" -> None
      [] key_source.tag = "Backup" -> key_source.unauthenticated
      [] key_source.tag = "Forward" -> Some("Forwarded")
      [] key_source.tag = "OldStyleImport" -> Some("Undefined")

to_backup(s, r) ==
    LET exported == export(s, r) IN
    IF exported.panic THEN exported
    ELSE LET result == BackedUpRoomKey_from(exported) IN
         [result EXCEPT !.unauthenticated = to_backup_unauthenticated(s.key_source)]
         @@ [panic |-> FALSE]

(***************************************************************************)
(* Decryption.  A JSON value is a tagged record; an object's value is a    *)
(* function from its keys.  A plaintext is the bytes of a JSON document,   *)
(* or bytes that are no JSON at all.                                       *)
(***************************************************************************)
JString(s) == [t |-> "string", s |-> s]
JNumber(n) == [t |-> "number", n |-> n]
JArray(a) == [t |-> "array", a |-> a]
JObject(f) == [t |-> "object", o |-> f]

Insert(object, k, val) ==
    [x \in DOMAIN object \cup {k} |-> IF x = k THEN val ELSE object[x]]

Get(object, k) == IF k \in DOMAIN object THEN Some(object[k]) ELSE None

\* serde_json::from_str
from_str(plaintext) ==
    IF plaintext.json THEN Ok(plaintext.value) ELSE Err([type |-> "Json"])

\* RoomId::parse(..).ok(): the id, when the string is a room id
ValidRoomIds == Rooms
RoomId_parse(r) == IF r \in ValidRoomIds THEN Some(r) ELSE None

\* vodozemac's decrypt: the message must be signed by the session's key and its
\* index must not precede the initial ratchet; the latest ratchet is advanced
\* to the message's index unless the initial or the latest ratchet serves it.
InnerDecrypt(r, message) ==
    IF message.key # r.key THEN Err([type |-> "Decryption", error |-> "Signature"])
    ELSE IF message.index < r.initial
    THEN Err([type |-> "Decryption", error |-> "UnknownMessageIndex"])
    ELSE Ok([plaintext |-> message.plaintext, message_index |-> message.index])

InnerAfterDecrypt(r, message) ==
    IF message.key = r.key /\ message.index > r.initial
    THEN [r EXCEPT !.latest = message.index]
    ELSE r

\* `decrypted_object.get("room_id").and_then(|r| r.as_str().and_then(..parse..))`
decrypted_room_id(decrypted_object) ==
    LET r == Get(decrypted_object, "room_id") IN
    IF r.some /\ r.val.t = "string" THEN RoomId_parse(r.val.s) ELSE None

\* `room_id.as_deref() != Some(self.room_id())`
room_mismatch_AbsentAccepted(s, room_id) == room_id.some /\ room_id.val # s.room_id

room_mismatch(s, room_id) == room_id # Some(s.room_id)

decrypt_reconstruct_PlaintextUnsignedKept(s, event, decrypted) ==
    LET parsed == from_str(decrypted.plaintext) IN
    IF ~parsed.ok THEN parsed
    ELSE IF parsed.val.t # "object" THEN Err([type |-> "NotAnObject"])
    ELSE
    LET o1 == Insert(parsed.val.o, "sender", JString(event.sender))
        o2 == Insert(o1, "event_id", JString(event.event_id))
        o3 == Insert(o2, "origin_server_ts", JNumber(event.origin_server_ts))
        room_id == decrypted_room_id(o3)
    IN IF room_mismatch(s, room_id)
       THEN Err([type |-> "MismatchedRoom", expected |-> s.room_id, found |-> room_id])
       ELSE
       LET o4 == IF "unsigned" \in DOMAIN o3 THEN o3
                 ELSE Insert(o3, "unsigned", event.unsigned)
           content == Get(o4, "content")
           o5 == IF /\ content.some /\ content.val.t = "object"
                    /\ "m.relates_to" \notin DOMAIN content.val.o
                    /\ event.content.relates_to.some
                 THEN Insert(o4, "content",
                             JObject(Insert(content.val.o, "m.relates_to",
                                            event.content.relates_to.val)))
                 ELSE o4
       IN Ok([event |-> JObject(o5), message_index |-> decrypted.message_index])

\* The rest of decrypt once the ratchet has produced `decrypted`.
decrypt_reconstruct(s, event, decrypted) ==
    LET parsed == from_str(decrypted.plaintext) IN
    IF ~parsed.ok THEN parsed
    ELSE IF parsed.val.t # "object" THEN Err([type |-> "NotAnObject"])
    ELSE
    LET o1 == Insert(parsed.val.o, "sender", JString(event.sender))
        o2 == Insert(o1, "event_id", JString(event.event_id))
        o3 == Insert(o2, "origin_server_ts", JNumber(event.origin_server_ts))
        room_id == decrypted_room_id(o3)
    IN IF room_mismatch(s, room_id)
       THEN Err([type |-> "MismatchedRoom", expected |-> s.room_id, found |-> room_id])
       ELSE
       LET o4 == Insert(o3, "unsigned", event.unsigned)
           content == Get(o4, "content")
           o5 == IF /\ content.some /\ content.val.t = "object"
                    /\ "m.relates_to" \notin DOMAIN content.val.o
                    /\ event.content.relates_to.some
                 THEN Insert(o4, "content",
                             JObject(Insert(content.val.o, "m.relates_to",
                                            event.content.relates_to.val)))
                 ELSE o4
       IN Ok([event |-> JObject(o5), message_index |-> decrypted.message_index])

(***************************************************************************)
(* compare: what is decided before any lock is taken                       *)
(***************************************************************************)
\* Arc::ptr_eq(&self.inner, &other.inner), on objects whose `inner` is a cell
ptr_eq(a, b) == a.inner = b.inner

compare_unlocked_NoIdentityCheck(self, other) ==
    IF \/ self.creator_info.curve25519_key # other.creator_info.curve25519_key
       \/ self.creator_info.signing_keys # other.creator_info.signing_keys
       \/ self.algorithm # other.algorithm
       \/ self.room_id # other.room_id
    THEN Some("Unconnected")
    ELSE None

compare_unlocked_AlgorithmIgnored(self, other) ==
    IF ptr_eq(self, other) THEN Some("Equal")
    ELSE IF \/ self.creator_info.curve25519_key # other.creator_info.curve25519_key
            \/ self.creator_info.signing_keys # other.creator_info.signing_keys
            \/ self.room_id # other.room_id
    THEN Some("Unconnected")
    ELSE None

compare_unlocked_BySessionId(self, other) ==
    IF self.session_id = other.session_id THEN Some("Equal")
    ELSE IF \/ self.creator_info.curve25519_key # other.creator_info.curve25519_key
            \/ self.creator_info.signing_keys # other.creator_info.signing_keys
            \/ self.algorithm # other.algorithm
            \/ self.room_id # other.room_id
    THEN Some("Unconnected")
    ELSE None

\* The two first branches of compare: the ordering, or None when the ratchets
\* have to be locked and compared.
compare_unlocked(self, other) ==
    IF ptr_eq(self, other) THEN Some("Equal")
    ELSE IF \/ self.creator_info.curve25519_key # other.creator_info.curve25519_key
            \/ self.creator_info.signing_keys # other.creator_info.signing_keys
            \/ self.algorithm # other.algorithm
            \/ self.room_id # other.room_id
    THEN Some("Unconnected")
    ELSE None

(***************************************************************************)
(* The key backup (backups/keys/backup.rs).  An EncryptedSessionData is the *)
(* record of its fields ephemeral, ciphertext, mac (byte strings), other    *)
(* (the fields the type does not know, by name) and unsigned.  HMAC-SHA-256 *)
(* is taken as ideal: a tag names the key and the message it was made of.   *)
(***************************************************************************)
\* a serde_json number that is not an integer
JFloat == [t |-> "float", f |-> "1.5"]

\* CanonicalJsonValue::try_from(serde_json::Value)
CanonicalJsonValue_try_from(val) ==
    IF val.t = "float" THEN Err("IntConvert") ELSE Ok(val)

\* A string is base 64 of some bytes, or of none.
base64_encode(bytes) == [b64 |-> Some(bytes)]

base64_decode(string) ==
    IF string.b64.some THEN Ok(string.b64.val) ELSE Err("DecodeError")

\* The field names in use, in the order of their bytes: canonical JSON writes
\* the members of an object in this order.
CanonicalKeys == <<"aad", "ciphertext", "ephemeral", "mac", "version">>

\* CanonicalJsonValue::to_string of an object: its members, sorted by name
to_string(object) ==
    LET keys == SelectSeq(CanonicalKeys, LAMBDA k : k \in DOMAIN object)
    IN [i \in 1 .. Len(keys) |-> <<keys[i], object[keys[i]]>>]

make_signable_json_WithoutMac(value) ==
    LET core == [k \in {"ephemeral", "ciphertext"} |->
                    JString(base64_encode(value[k]))]
        json_value == [k \in DOMAIN core \cup DOMAIN value.other |->
                          IF k \in DOMAIN value.other THEN value.other[k] ELSE core[k]]
    IN IF \E k \in DOMAIN value.other : ~CanonicalJsonValue_try_from(value.other[k]).ok
       THEN Err("NotAnObject")
       ELSE Ok(to_string(json_value))

\* The three fields go into a CanonicalJsonObject (a BTreeMap), each member
\* of `other` is inserted over it, and the object is written out.
\* make_signable_json over a list of members, kept in the order they were put.
make_signable_json_InsertionOrder(value) ==
    LET core == <<"ephemeral", "ciphertext", "mac">>
        extra == SelectSeq(CanonicalKeys, LAMBDA k : k \in DOMAIN value.other)
    IN IF \E k \in DOMAIN value.other : ~CanonicalJsonValue_try_from(value.other[k]).ok
       THEN Err("NotAnObject")
       ELSE Ok([i \in 1 .. 3 |-> <<core[i], JString(base64_encode(value[core[i]]))>>]
               \o [i \in 1 .. Len(extra) |-> <<extra[i], value.other[extra[i]]>>])

make_signable_json(value) ==
    LET core == [k \in {"ephemeral", "ciphertext", "mac"} |->
                    JString(base64_encode(value[k]))]
        json_value == [k \in DOMAIN core \cup DOMAIN value.other |->
                          IF k \in DOMAIN value.other THEN value.other[k] ELSE core[k]]
    IN IF \E k \in DOMAIN value.other : ~CanonicalJsonValue_try_from(value.other[k]).ok
       THEN Err("NotAnObject")
       ELSE Ok(to_string(json_value))

calculate_hmac(self, message) == [key |-> self, message |-> message]

sign_CoreFieldsOnly(self, value) ==
    LET serialized == make_signable_json([value EXCEPT !.other = <<>>])
    IN IF ~serialized.ok THEN serialized
       ELSE Ok([value EXCEPT !.unsigned =
                   Some([backup_mac |->
                            Some(base64_encode(calculate_hmac(self, serialized.val)))])])

\* sign(&self, value: &mut EncryptedSessionData): the value it leaves
\* sign with the unsigned block under the MAC.
sign_CoversUnsigned(self, value) ==
    LET serialized == make_signable_json(value)
    IN IF ~serialized.ok THEN serialized
       ELSE Ok([value EXCEPT !.unsigned =
                   Some([backup_mac |->
                            Some(base64_encode(calculate_hmac(self,
                                Append(serialized.val, <<"unsigned", value.unsigned>>))))])])

sign(self, value) ==
    LET serialized == make_signable_json(value)
    IN IF ~serialized.ok THEN serialized
       ELSE Ok([value EXCEPT !.unsigned =
                   Some([backup_mac |->
                            Some(base64_encode(calculate_hmac(self, serialized.val)))])])

verify_MissingIsInvalid(self, value) ==
    LET serialized == make_signable_json(value)
        mac == IF value.unsigned.some THEN value.unsigned.val.backup_mac ELSE None
    IN IF ~serialized.ok THEN serialized
       ELSE IF ~mac.some THEN Err("InvalidSignature")
       ELSE IF ~base64_decode(mac.val).ok THEN Err("InvalidSignature")
       ELSE IF calculate_hmac(self, serialized.val) # base64_decode(mac.val).val
       THEN Err("InvalidSignature")
       ELSE Ok("()")

verify(self, value) ==
    LET serialized == make_signable_json(value)
        mac == IF value.unsigned.some THEN value.unsigned.val.backup_mac ELSE None
    IN IF ~serialized.ok THEN serialized
       ELSE IF ~mac.some THEN Err("NoSignatureFound")
       ELSE IF ~base64_decode(mac.val).ok THEN Err("InvalidSignature")
       ELSE IF calculate_hmac(self, serialized.val) # base64_decode(mac.val).val
       THEN Err("InvalidSignature")
       ELSE Ok("()")

\* PkEncryption::encrypt: what it sends names the recipient's key, the
\* ephemeral key it drew and the message; the MAC is always there.
PkEncrypt(key, ephemeral, message) ==
    [ephemeral_key |-> ephemeral,
     ciphertext |-> [to |-> key, by |-> ephemeral, message |-> message],
     mac |-> Some([to |-> key, by |-> ephemeral])]

\* serde_json::to_vec
to_vec(value) == [json |-> value]

encrypt_NeverForwarded(self, session, key, ephemeral) ==
    LET forwarded_count == 0
        first_message_index == session.first_known_index
        message == PkEncrypt(self.key, ephemeral, to_vec(key))
        session_data == [ephemeral |-> message.ephemeral_key,
                         ciphertext |-> message.ciphertext,
                         mac |-> message.mac.val,
                         other |-> <<>>,
                         unsigned |-> None]
    IN IF key.panic THEN [panic |-> TRUE]
       ELSE [panic |-> FALSE,
             first_message_index |-> first_message_index,
             forwarded_count |-> forwarded_count,
             is_verified |-> FALSE,
             session_data |-> IF self.mac_key.some
                              THEN sign(self.mac_key.val, session_data).val
                              ELSE session_data]

encrypt_Unsigned(self, session, key, ephemeral) ==
    LET forwarded_count == IF has_been_imported(session) THEN 1 ELSE 0
        first_message_index == session.first_known_index
        message == PkEncrypt(self.key, ephemeral, to_vec(key))
        session_data == [ephemeral |-> message.ephemeral_key,
                         ciphertext |-> message.ciphertext,
                         mac |-> message.mac.val,
                         other |-> <<>>,
                         unsigned |-> None]
    IN IF key.panic THEN [panic |-> TRUE]
       ELSE [panic |-> FALSE,
             first_message_index |-> first_message_index,
             forwarded_count |-> forwarded_count,
             is_verified |-> FALSE,
             session_data |-> session_data]

\* encrypt(&self, session) once `session.to_backup().await` has returned `key`
\* and the ephemeral key has been drawn.  No member of `other`: sign cannot
\* fail, its unwrap() does not panic.
encrypt(self, session, key, ephemeral) ==
    LET forwarded_count == IF has_been_imported(session) THEN 1 ELSE 0
        first_message_index == session.first_known_index
        message == PkEncrypt(self.key, ephemeral, to_vec(key))
        session_data == [ephemeral |-> message.ephemeral_key,
                         ciphertext |-> message.ciphertext,
                         mac |-> message.mac.val,
                         other |-> <<>>,
                         unsigned |-> None]
    IN IF key.panic THEN [panic |-> TRUE]
       ELSE [panic |-> FALSE,
             first_message_index |-> first_message_index,
             forwarded_count |-> forwarded_count,
             is_verified |-> FALSE,
             session_data |-> IF self.mac_key.some
                              THEN sign(self.mac_key.val, session_data).val
                              ELSE session_data]

\* The public half of a backup decryption key.
megolm_v1_public_key(self) == IF self = "backupSk" THEN "backupPk" ELSE "otherPk"

\* The inverse of PkEncrypt and to_vec: the envelope opens under the private
\* half of the key it was sealed to, if its MAC is the one of its
\* ciphertext and ephemeral key.
decrypt_session_data(self, session_data) ==
    LET ciphertext == session_data.ciphertext IN
    IF /\ ciphertext.to = megolm_v1_public_key(self)
       /\ ciphertext.by = session_data.ephemeral
       /\ session_data.mac = [to |-> ciphertext.to, by |-> ciphertext.by]
    THEN Ok(ciphertext.message.json)
    ELSE Err([type |-> "Decryption"])

(***************************************************************************)
(* The heap: installing a constructed value allocates its Mutex and its    *)
(* AtomicBool; a clone shares both with the object it copies.              *)
(***************************************************************************)
Idle == [pc |-> "idle"]

Install(val, origin) ==
    /\ sessions' = Append(sessions, [val EXCEPT !.inner = Len(cells) + 1,
                                                !.backed_up = Len(flags) + 1])
    /\ cells' = Append(cells, val.inner)
    /\ lock' = Append(lock, 0)
    /\ flags' = Append(flags, val.backed_up)
    /\ made' = Append(made, origin)

\* A constructor's result: the new object, or the error and no object.
Construct(res, origin) ==
    IF res.ok
    THEN Install(res.val, origin) /\ err' = None
    ELSE err' = Some(res.err) /\ UNCHANGED <<sessions, made, cells, lock, flags>>

Ratchet(i) == cells[sessions[i].inner]
backed_up(i) == flags[sessions[i].backed_up]

(***************************************************************************)
(* The records a session can be built from                                 *)
(***************************************************************************)
RoomKeyInputs ==
    [kind : {"room_key"}, sender_key : Curve25519Keys, signing_key : Ed25519Keys,
     room_id : Rooms, session_key : SessionKeys, algorithm : Algorithms,
     history_visibility : HistoryVisibilities]

ExportedRoomKeys ==
    [algorithm : Algorithms, room_id : Rooms, sender_key : Curve25519Keys,
     session_id : SessionIds, forwarding_curve25519_key_chain : {<<>>},
     sender_claimed_keys : SigningKeyMaps, session_key : SessionKeys]

BackedUpRoomKeys ==
    [algorithm : Algorithms, sender_key : Curve25519Keys, session_key : SessionKeys,
     sender_claimed_keys : SigningKeyMaps, forwarding_curve25519_key_chain : {<<>>},
     unauthenticated : UnauthenticatedSources]

ForwardedContents ==
    [variant : {"MegolmV1AesSha2"}, algorithm : {MegolmV1AesSha2}, room_id : Rooms,
     claimed_sender_key : Curve25519Keys, claimed_ed25519_key : Ed25519Keys,
     session_key : SessionKeys]
    \cup
    [variant : {"MegolmV2AesSha2"}, algorithm : {MegolmV2AesSha2}, room_id : Rooms,
     claimed_sender_key : Curve25519Keys, claimed_signing_keys : SigningKeyMaps,
     session_key : SessionKeys]
    \cup
    [variant : {"Unknown"}, algorithm : {UnknownAlgorithm}]

Inbox ==
    RoomKeyInputs
    \cup [kind : {"export"}, key : ExportedRoomKeys]
    \cup [kind : {"backup"}, room_id : Rooms, backup : BackedUpRoomKeys]
    \cup [kind : {"forwarded"}, content : ForwardedContents]

(***************************************************************************)
(* Construction from a received record                                     *)
(***************************************************************************)
Pending(kind) == inbox.some /\ inbox.val.kind = kind /\ Len(sessions) < MaxSessions

ReceiveRoomKey ==
    /\ Pending("room_key")
    /\ LET m == inbox.val IN
       Construct(new(m.sender_key, m.signing_key, m.room_id, m.session_key,
                     m.algorithm, m.history_visibility),
                 [ctor |-> "new", input |-> m])
    /\ inbox' = None
    /\ UNCHANGED tasks
    /\ UNCHANGED backup_vars

ReceiveExport ==
    /\ Pending("export")
    /\ Construct(from_export(inbox.val.key), [ctor |-> "from_export", input |-> inbox.val])
    /\ inbox' = None
    /\ UNCHANGED tasks
    /\ UNCHANGED backup_vars

ReceiveBackup ==
    /\ Pending("backup")
    /\ Construct(from_backup(inbox.val.room_id, inbox.val.backup),
                 [ctor |-> "from_backup", input |-> inbox.val])
    /\ inbox' = None
    /\ UNCHANGED tasks
    /\ UNCHANGED backup_vars

ReceiveForwarded ==
    /\ Pending("forwarded")
    /\ Construct(try_from_DecryptedForwardedRoomKeyEvent(inbox.val),
                 [ctor |-> "forwarded", input |-> inbox.val])
    /\ inbox' = None
    /\ UNCHANGED tasks
    /\ UNCHANGED backup_vars

(***************************************************************************)
(* pickle, export_at_index, to_backup: call; wait for the lock; compute    *)
(* under the lock and release it; hand the result to the caller.           *)
(***************************************************************************)
Objects == 1 .. Len(sessions)
Tasks == DOMAIN tasks

CallPickle(t, i) ==
    /\ tasks[t].pc = "idle"
    /\ tasks' = [tasks EXCEPT ![t] = [pc |-> "lock", op |-> "pickle", self |-> i]]
    /\ UNCHANGED <<inbox, sessions, made, cells, lock, flags, err>>
    /\ UNCHANGED backup_vars

CallExportAtIndex(t, i, n) ==
    /\ tasks[t].pc = "idle"
    /\ tasks' = [tasks EXCEPT ![t] =
                    [pc |-> "lock", op |-> "export_at_index", self |-> i, index |-> n]]
    /\ UNCHANGED <<inbox, sessions, made, cells, lock, flags, err>>
    /\ UNCHANGED backup_vars

CallToBackup(t, i) ==
    /\ tasks[t].pc = "idle"
    /\ tasks' = [tasks EXCEPT ![t] = [pc |-> "lock", op |-> "to_backup", self |-> i]]
    /\ UNCHANGED <<inbox, sessions, made, cells, lock, flags, err>>
    /\ UNCHANGED backup_vars

\* `self.inner.lock().await`: the task is suspended until the Mutex is free.
Acquire_Unguarded(t) ==
    /\ tasks[t].pc = "lock"
    /\ lock' = [lock EXCEPT ![sessions[tasks[t].self].inner] = t]
    /\ tasks' = [tasks EXCEPT ![t].pc = "locked"]
    /\ UNCHANGED <<inbox, sessions, made, cells, flags, err>>
    /\ UNCHANGED backup_vars

Acquire(t) ==
    /\ tasks[t].pc = "lock"
    /\ lock[sessions[tasks[t].self].inner] = 0
    /\ lock' = [lock EXCEPT ![sessions[tasks[t].self].inner] = t]
    /\ tasks' = [tasks EXCEPT ![t].pc = "locked"]
    /\ UNCHANGED <<inbox, sessions, made, cells, flags, err>>
    /\ UNCHANGED backup_vars

Release(t, c) == lock' = [lock EXCEPT ![c] = 0]

FinishPickle(t) ==
    /\ tasks[t].pc = "locked" /\ tasks[t].op = "pickle"
    /\ LET i == tasks[t].self IN
       /\ tasks' = [tasks EXCEPT ![t] =
                       [pc |-> "done", op |-> "pickle", self |-> i,
                        res |-> pickle(sessions[i], Ratchet(i), backed_up(i))]]
       /\ Release(t, sessions[i].inner)
    /\ UNCHANGED <<inbox, sessions, made, cells, flags, err>>
    /\ UNCHANGED backup_vars

FinishExportAtIndex(t) ==
    /\ tasks[t].pc = "locked" /\ tasks[t].op = "export_at_index"
    /\ LET i == tasks[t].self IN
       /\ tasks' = [tasks EXCEPT ![t] =
                       [pc |-> "done", op |-> "export_at_index", self |-> i,
                        index |-> tasks[t].index,
                        res |-> export_at_index(sessions[i], Ratchet(i), tasks[t].index)]]
       /\ Release(t, sessions[i].inner)
    /\ UNCHANGED <<inbox, sessions, made, cells, flags, err>>
    /\ UNCHANGED backup_vars

FinishToBackup_MarksBackedUp(t) ==
    /\ tasks[t].pc = "locked" /\ tasks[t].op = "to_backup"
    /\ LET i == tasks[t].self IN
       /\ tasks' = [tasks EXCEPT ![t] =
                       [pc |-> "done", op |-> "to_backup", self |-> i,
                        res |-> to_backup(sessions[i], Ratchet(i))]]
       /\ Release(t, sessions[i].inner)
       /\ flags' = [flags EXCEPT ![sessions[i].backed_up] = TRUE]
    /\ UNCHANGED <<inbox, sessions, made, cells, err>>
    /\ UNCHANGED backup_vars

FinishToBackup(t) ==
    /\ tasks[t].pc = "locked" /\ tasks[t].op = "to_backup"
    /\ LET i == tasks[t].self IN
       /\ tasks' = [tasks EXCEPT ![t] =
                       [pc |-> "done", op |-> "to_backup", self |-> i,
                        res |-> to_backup(sessions[i], Ratchet(i))]]
       /\ Release(t, sessions[i].inner)
    /\ UNCHANGED <<inbox, sessions, made, cells, flags, err>>
    /\ UNCHANGED backup_vars

\* The caller drops the result.
Return(t) ==
    /\ tasks[t].pc = "done"
    /\ tasks' = [tasks EXCEPT ![t] = Idle]
    /\ UNCHANGED <<inbox, sessions, made, cells, lock, flags, err>>
    /\ UNCHANGED backup_vars

(***************************************************************************)
(* Construction from the result of an operation: the round trips           *)
(***************************************************************************)
Finished(t, op) ==
    /\ tasks[t].pc = "done" /\ tasks[t].op = op
    /\ Len(sessions) < MaxSessions

RestorePickle(t) ==
    /\ Finished(t, "pickle")
    /\ Construct(from_pickle(tasks[t].res),
                 [ctor |-> "from_pickle", src |-> tasks[t].self, input |-> tasks[t].res])
    /\ tasks' = [tasks EXCEPT ![t] = Idle]
    /\ UNCHANGED inbox
    /\ UNCHANGED backup_vars

ImportExport(t) ==
    /\ Finished(t, "export_at_index")
    /\ ~tasks[t].res.panic
    /\ Construct(from_export(tasks[t].res),
                 [ctor |-> "from_export", src |-> tasks[t].self, index |-> tasks[t].index,
                  input |-> tasks[t].res])
    /\ tasks' = [tasks EXCEPT ![t] = Idle]
    /\ UNCHANGED inbox
    /\ UNCHANGED backup_vars

RestoreBackup(t, room_id) ==
    /\ Finished(t, "to_backup")
    /\ ~tasks[t].res.panic
    /\ Construct(from_backup(room_id, tasks[t].res),
                 [ctor |-> "from_backup", src |-> tasks[t].self,
                  input |-> [room_id |-> room_id, backup |-> tasks[t].res]])
    /\ tasks' = [tasks EXCEPT ![t] = Idle]
    /\ UNCHANGED inbox
    /\ UNCHANGED backup_vars

(***************************************************************************)
(* The specification of a session's life: one record is received and built *)
(* into a session, which one caller then pickles, exports, backs up and    *)
(* restores.                                                               *)
(***************************************************************************)
Init ==
    /\ inbox \in {Some(m) : m \in Inbox}
    /\ sessions = <<>>
    /\ made = <<>>
    /\ cells = <<>>
    /\ lock = <<>>
    /\ flags = <<>>
    /\ tasks = [t \in {1} |-> Idle]
    /\ err = None
    /\ NoBackup

Next ==
    \/ ReceiveRoomKey
    \/ ReceiveExport
    \/ ReceiveBackup
    \/ ReceiveForwarded
    \/ \E t \in Tasks, i \in Objects : CallPickle(t, i)
    \/ \E t \in Tasks, i \in Objects, n \in Indices : CallExportAtIndex(t, i, n)
    \/ \E t \in Tasks, i \in Objects : CallToBackup(t, i)
    \/ \E t \in Tasks : Acquire(t)
    \/ \E t \in Tasks : FinishPickle(t)
    \/ \E t \in Tasks : FinishExportAtIndex(t)
    \/ \E t \in Tasks : FinishToBackup(t)
    \/ \E t \in Tasks : Return(t)
    \/ \E t \in Tasks : RestorePickle(t)
    \/ \E t \in Tasks : ImportExport(t)
    \/ \E t \in Tasks, room_id \in Rooms : RestoreBackup(t, room_id)

Spec == Init /\ [][Next]_vars

(***************************************************************************)
(* The specification of persistence: a stored record is loaded, and the    *)
(* loaded session is pickled and stored again.                             *)
(***************************************************************************)
InnerPickles == [key : Keys, initial : Indices, config : {"V1", "V2"}]

StoredRecords ==
    [pickle : InnerPickles, sender_key : Curve25519Keys, signing_key : SigningKeyMaps,
     room_id : Rooms, imported : {None, Some(TRUE), Some(FALSE)},
     key_source : {None} \cup {Some(k) : k \in KeySources},
     backed_up : BOOLEAN, history_visibility : HistoryVisibilities,
     algorithm : Algorithms]

LoadStored ==
    /\ Pending("stored")
    /\ Construct(load(inbox.val.val), [ctor |-> "load", input |-> inbox.val.val])
    /\ inbox' = None
    /\ UNCHANGED tasks
    /\ UNCHANGED backup_vars

Persist(t) ==
    /\ tasks[t].pc = "done" /\ tasks[t].op = "pickle"
    /\ ~inbox.some
    /\ inbox' = Some([kind |-> "stored", val |-> PickledInboundGroupSessionIn_of(tasks[t].res)])
    /\ tasks' = [tasks EXCEPT ![t] = Idle]
    /\ UNCHANGED <<sessions, made, cells, lock, flags, err>>
    /\ UNCHANGED backup_vars

InitStored ==
    /\ inbox \in {Some([kind |-> "stored", val |-> p]) : p \in StoredRecords}
    /\ sessions = <<>>
    /\ made = <<>>
    /\ cells = <<>>
    /\ lock = <<>>
    /\ flags = <<>>
    /\ tasks = [t \in {1} |-> Idle]
    /\ err = None
    /\ NoBackup

NextStored ==
    \/ LoadStored
    \/ \E t \in Tasks, i \in Objects : CallPickle(t, i)
    \/ \E t \in Tasks : Acquire(t)
    \/ \E t \in Tasks : FinishPickle(t)
    \/ \E t \in Tasks : Persist(t)
    \/ \E t \in Tasks : Return(t)

SpecStored == InitStored /\ [][NextStored]_vars

(***************************************************************************)
(* decrypt: an unknown scheme fails at once; otherwise the ratchet is      *)
(* locked, asked to decrypt, and unlocked, and the event is reconstructed. *)
(***************************************************************************)
CallDecrypt_LocksFirst(t, i, event) ==
    /\ tasks[t].pc = "idle"
    /\ tasks' = [tasks EXCEPT ![t] =
                    [pc |-> "lock", op |-> "decrypt", self |-> i, event |-> event]]
    /\ UNCHANGED <<inbox, sessions, made, cells, lock, flags, err>>
    /\ UNCHANGED backup_vars

CallDecrypt(t, i, event) ==
    /\ tasks[t].pc = "idle"
    /\ tasks' = [tasks EXCEPT ![t] =
                    IF event.content.scheme = "Unknown"
                    THEN [pc |-> "done", op |-> "decrypt", self |-> i, event |-> event,
                          res |-> Err([type |-> "UnsupportedAlgorithm"])]
                    ELSE [pc |-> "lock", op |-> "decrypt", self |-> i, event |-> event]]
    /\ UNCHANGED <<inbox, sessions, made, cells, lock, flags, err>>
    /\ UNCHANGED backup_vars

\* decrypt that returns its error without giving up the lock.
FinishDecrypt_LockKeptOnError(t) ==
    /\ tasks[t].pc = "locked" /\ tasks[t].op = "decrypt"
    /\ LET i == tasks[t].self
           event == tasks[t].event
           decrypted == InnerDecrypt(Ratchet(i), event.content.ciphertext)
       IN /\ cells' = [cells EXCEPT ![sessions[i].inner] =
                          InnerAfterDecrypt(@, event.content.ciphertext)]
          /\ IF decrypted.ok THEN Release(t, sessions[i].inner) ELSE UNCHANGED lock
          /\ tasks' = [tasks EXCEPT ![t] =
                          [pc |-> "done", op |-> "decrypt", self |-> i, event |-> event,
                           res |-> IF decrypted.ok
                                   THEN decrypt_reconstruct(sessions[i], event, decrypted.val)
                                   ELSE decrypted]]
    /\ UNCHANGED <<inbox, sessions, made, flags, err>>
    /\ UNCHANGED backup_vars

FinishDecrypt(t) ==
    /\ tasks[t].pc = "locked" /\ tasks[t].op = "decrypt"
    /\ LET i == tasks[t].self
           event == tasks[t].event
           decrypted == InnerDecrypt(Ratchet(i), event.content.ciphertext)
       IN /\ cells' = [cells EXCEPT ![sessions[i].inner] =
                          InnerAfterDecrypt(@, event.content.ciphertext)]
          /\ Release(t, sessions[i].inner)
          /\ tasks' = [tasks EXCEPT ![t] =
                          [pc |-> "done", op |-> "decrypt", self |-> i, event |-> event,
                           res |-> IF decrypted.ok
                                   THEN decrypt_reconstruct(sessions[i], event, decrypted.val)
                                   ELSE decrypted]]
    /\ UNCHANGED <<inbox, sessions, made, flags, err>>
    /\ UNCHANGED backup_vars

(***************************************************************************)
(* The events a session is asked to decrypt                                *)
(***************************************************************************)
Relation == JObject([rel_type |-> JString("m.thread")])
InnerRelation == JObject([rel_type |-> JString("m.replace")])

PlainRoomIds ==
    {None, Some(JNumber(5)), Some(JString("not a room id"))}
    \cup {Some(JString(r)) : r \in Rooms}

PlainContents ==
    {None, Some(JObject([body |-> JString("hello")])),
     Some(JObject(Insert([body |-> JString("hello")], "m.relates_to", InnerRelation)))}

Forged ==
    [sender |-> JString("@mallory:localhost"), event_id |-> JString("$forged"),
     origin_server_ts |-> JNumber(99), unsigned |-> JObject([age |-> JNumber(99)])]

WithOption(object, k, opt) == IF opt.some THEN Insert(object, k, opt.val) ELSE object

PlainObject(room_id, content, forged) ==
    LET base == [type |-> JString("m.room.message")]
        b1 == IF forged THEN Forged @@ base ELSE base
        b2 == WithOption(b1, "room_id", room_id)
    IN JObject(WithOption(b2, "content", content))

Plaintexts ==
    {[json |-> FALSE], [json |-> TRUE, value |-> JArray(<<>>)]}
    \cup {[json |-> TRUE, value |-> PlainObject(r, c, f)] :
             r \in PlainRoomIds, c \in PlainContents, f \in BOOLEAN}

MegolmMessages == [key : Keys, index : Indices, plaintext : Plaintexts]

EventContents ==
    [scheme : {"MegolmV1AesSha2", "MegolmV2AesSha2"}, ciphertext : MegolmMessages,
     relates_to : {None, Some(Relation)}]
    \cup [scheme : {"Unknown"}, relates_to : {None, Some(Relation)}]

EncryptedEvents ==
    [content : EventContents, sender : {"@alice:localhost"}, event_id : {"$event"},
     origin_server_ts : {1}, unsigned : {JObject([age |-> JNumber(1)])}]

(***************************************************************************)
(* The specification of decryption: one session received directly, and a   *)
(* caller that hands it events.                                            *)
(***************************************************************************)
Alloc(val, c, f) == [val EXCEPT !.inner = c, !.backed_up = f]

InitDecrypt ==
    /\ \E room_id \in Rooms, session_key \in SessionKeys :
          LET s == new("curveA", "edA", room_id, session_key, MegolmV1AesSha2, None).val
          IN /\ sessions = <<Alloc(s, 1, 1)>>
             /\ cells = <<s.inner>>
             /\ flags = <<s.backed_up>>
             /\ made = <<[ctor |-> "new"]>>
    /\ inbox = None
    /\ lock = <<0>>
    /\ tasks = [t \in {1} |-> Idle]
    /\ err = None
    /\ NoBackup

NextDecrypt ==
    \/ \E t \in Tasks, i \in Objects, event \in EncryptedEvents : CallDecrypt(t, i, event)
    \/ \E t \in Tasks : Acquire(t)
    \/ \E t \in Tasks : FinishDecrypt(t)
    \/ \E t \in Tasks : Return(t)

SpecDecrypt == InitDecrypt /\ [][NextDecrypt]_vars

(***************************************************************************)
(* compare(self, other): decided at once for the same object and for       *)
(* unconnected sessions; otherwise `other.inner.lock().await`, then        *)
(* `self.inner.lock().await`, the ratchets' comparison, and both unlocked. *)
(***************************************************************************)
CallCompare(t, a, b) ==
    /\ tasks[t].pc = "idle"
    /\ LET decided == compare_unlocked(sessions[a], sessions[b]) IN
       tasks' = [tasks EXCEPT ![t] =
                    IF decided.some
                    THEN [pc |-> "done", op |-> "compare", self |-> a, other |-> b,
                          res |-> decided.val]
                    ELSE [pc |-> "lock_other", op |-> "compare", self |-> a, other |-> b]]
    /\ UNCHANGED <<inbox, sessions, made, cells, lock, flags, err>>
    /\ UNCHANGED backup_vars

CompareLockOther(t) ==
    /\ tasks[t].pc = "lock_other"
    /\ lock[sessions[tasks[t].other].inner] = 0
    /\ lock' = [lock EXCEPT ![sessions[tasks[t].other].inner] = t]
    /\ tasks' = [tasks EXCEPT ![t].pc = "lock_self"]
    /\ UNCHANGED <<inbox, sessions, made, cells, flags, err>>
    /\ UNCHANGED backup_vars

CompareLockSelf_Unguarded(t) ==
    /\ tasks[t].pc = "lock_self"
    /\ lock' = [lock EXCEPT ![sessions[tasks[t].self].inner] = t]
    /\ tasks' = [tasks EXCEPT ![t].pc = "locked_both"]
    /\ UNCHANGED <<inbox, sessions, made, cells, flags, err>>
    /\ UNCHANGED backup_vars

CompareLockSelf(t) ==
    /\ tasks[t].pc = "lock_self"
    /\ lock[sessions[tasks[t].self].inner] = 0
    /\ lock' = [lock EXCEPT ![sessions[tasks[t].self].inner] = t]
    /\ tasks' = [tasks EXCEPT ![t].pc = "locked_both"]
    /\ UNCHANGED <<inbox, sessions, made, cells, flags, err>>
    /\ UNCHANGED backup_vars

FinishCompare(t) ==
    /\ tasks[t].pc = "locked_both"
    /\ LET a == tasks[t].self
           b == tasks[t].other
       IN /\ tasks' = [tasks EXCEPT ![t] =
                          [pc |-> "done", op |-> "compare", self |-> a, other |-> b,
                           res |-> InnerCompare(Ratchet(a), Ratchet(b))]]
          /\ lock' = [c \in DOMAIN lock |->
                         IF c \in {sessions[a].inner, sessions[b].inner} THEN 0 ELSE lock[c]]
    /\ UNCHANGED <<inbox, sessions, made, cells, flags, err>>
    /\ UNCHANGED backup_vars

(***************************************************************************)
(* One session, built by new, from the export of such a session (under any *)
(* session id the exported key may carry) or from its backup, at any first *)
(* index.                                                                  *)
(***************************************************************************)
InitSession ==
    /\ \E session_key \in SessionKeys, origin \in {"new", "from_export", "from_backup"},
          session_id \in SessionIds :
          LET direct == new("curveA", "edA", "!a:localhost", session_key,
                            MegolmV1AesSha2, None).val
              s == CASE origin = "new" -> direct
                     [] origin = "from_export" ->
                            from_export([export(direct, direct.inner)
                                            EXCEPT !.session_id = session_id]).val
                     [] origin = "from_backup" ->
                            from_backup("!a:localhost",
                                        to_backup(direct, direct.inner)).val
          IN /\ sessions = <<Alloc(s, 1, 1)>>
             /\ cells = <<s.inner>>
             /\ flags = <<s.backed_up>>
             /\ made = <<[ctor |-> origin]>>
    /\ inbox = None
    /\ lock = <<0>>
    /\ tasks = [t \in {1} |-> Idle]
    /\ err = None
    /\ NoBackup

(***************************************************************************)
(* The specification of comparison in a session's life: a session, and the *)
(* sessions made from its pickle and from its exports, are compared with   *)
(* each other.                                                             *)
(***************************************************************************)
NextCompare ==
    \/ \E t \in Tasks, i \in Objects : CallPickle(t, i)
    \/ \E t \in Tasks, i \in Objects, n \in Indices : CallExportAtIndex(t, i, n)
    \/ \E t \in Tasks : Acquire(t)
    \/ \E t \in Tasks : FinishPickle(t)
    \/ \E t \in Tasks : FinishExportAtIndex(t)
    \/ \E t \in Tasks : Return(t)
    \/ \E t \in Tasks : RestorePickle(t)
    \/ \E t \in Tasks : ImportExport(t)
    \/ \E t \in Tasks, a \in Objects, b \in Objects : CallCompare(t, a, b)
    \/ \E t \in Tasks : CompareLockOther(t)
    \/ \E t \in Tasks : CompareLockSelf(t)
    \/ \E t \in Tasks : FinishCompare(t)

SpecCompare == InitSession /\ [][NextCompare]_vars

(***************************************************************************)
(* The specification of concurrent use: a session received directly, a     *)
(* clone of it, the session imported from its export at the last index and *)
(* a session received on its own, over either ratchet, that differs from   *)
(* the first in at most one of creator key, signing key, room and          *)
(* algorithm, used by NumTasks tasks.                                      *)
(***************************************************************************)
InitConcurrent ==
    /\ \E differs \in {"nothing", "sender_key", "signing_key", "room_id", "algorithm"},
          k \in Keys :
          LET a == new("curveA", "edA", "!a:localhost", [key |-> 1, index |-> 0],
                       MegolmV1AesSha2, None).val
              w == from_export(export_at_index(a, a.inner, MaxIndex)).val
              u == new(IF differs = "sender_key" THEN "curveB" ELSE "curveA",
                       IF differs = "signing_key" THEN "edB" ELSE "edA",
                       IF differs = "room_id" THEN "!b:localhost" ELSE "!a:localhost",
                       [key |-> k, index |-> 0],
                       IF differs = "algorithm" THEN MegolmV2AesSha2 ELSE MegolmV1AesSha2,
                       None).val
          IN /\ sessions = <<Alloc(a, 1, 1), Alloc(a, 1, 1), Alloc(w, 2, 2), Alloc(u, 3, 3)>>
             /\ cells = <<a.inner, w.inner, u.inner>>
             /\ flags = <<a.backed_up, w.backed_up, u.backed_up>>
             /\ made = <<[ctor |-> "new"], [ctor |-> "clone", src |-> 1],
                         [ctor |-> "from_export", src |-> 1], [ctor |-> "new"]>>
    /\ inbox = None
    /\ lock = <<0, 0, 0>>
    /\ tasks = [t \in 1 .. NumTasks |-> Idle]
    /\ err = None
    /\ NoBackup

NextConcurrent ==
    \/ \E t \in Tasks, a \in Objects, b \in Objects : CallCompare(t, a, b)
    \/ \E t \in Tasks : CompareLockOther(t)
    \/ \E t \in Tasks : CompareLockSelf(t)
    \/ \E t \in Tasks : FinishCompare(t)
    \/ \E t \in Tasks, i \in Objects : CallPickle(t, i)
    \/ \E t \in Tasks : Acquire(t)
    \/ \E t \in Tasks : FinishPickle(t)
    \/ \E t \in Tasks : Return(t)

SpecConcurrent == InitConcurrent /\ [][NextConcurrent]_vars

(***************************************************************************)
(* The specification of the backup MAC: an envelope is signed, changed on   *)
(* its way and verified.                                                    *)
(***************************************************************************)
MacKeys == {"macA", "macB"}
Blobs == {1, 2}
ExtraFields ==
    UNION {[names -> {JNumber(1), JFloat}] : names \in SUBSET {"aad", "version"}}
Unsigneds ==
    {None, Some([backup_mac |-> None]), Some([backup_mac |-> Some([b64 |-> None])])}
Envelopes ==
    [ephemeral : Blobs, ciphertext : Blobs, mac : Blobs, other : ExtraFields,
     unsigned : Unsigneds]

Sign(key) ==
    /\ envelope.some
    /\ LET result == sign(key, envelope.val) IN
       IF result.ok
       THEN /\ envelope' = Some(result.val)
            /\ signed' = Some([key |-> key, value |-> result.val])
            /\ verdict' = Some([op |-> "sign", key |-> key, res |-> Ok("()")])
       ELSE /\ verdict' = Some([op |-> "sign", key |-> key, res |-> result])
            /\ UNCHANGED <<envelope, signed>>
    /\ UNCHANGED <<inbox, sessions, made, cells, lock, flags, tasks, err, backup_key>>

Verify(key) ==
    /\ envelope.some
    /\ verdict' = Some([op |-> "verify", key |-> key, res |-> verify(key, envelope.val)])
    /\ UNCHANGED <<inbox, sessions, made, cells, lock, flags, tasks, err, backup_key,
                   envelope, signed>>

\* The envelope comes back from the server with another value in a field.
Tamper(field, bytes) ==
    /\ envelope.some
    /\ envelope.val[field] # bytes
    /\ envelope' = Some([envelope.val EXCEPT ![field] = bytes])
    /\ verdict' = None
    /\ UNCHANGED <<inbox, sessions, made, cells, lock, flags, tasks, err, backup_key,
                   signed>>

TamperUnsigned(unsigned) ==
    /\ envelope.some
    /\ envelope.val.unsigned # unsigned
    /\ envelope' = Some([envelope.val EXCEPT !.unsigned = unsigned])
    /\ verdict' = None
    /\ UNCHANGED <<inbox, sessions, made, cells, lock, flags, tasks, err, backup_key,
                   signed>>

InitSign ==
    /\ inbox = None
    /\ sessions = <<>>
    /\ made = <<>>
    /\ cells = <<>>
    /\ lock = <<>>
    /\ flags = <<>>
    /\ tasks = [t \in {1} |-> Idle]
    /\ err = None
    /\ backup_key = None
    /\ envelope \in {Some(value) : value \in Envelopes}
    /\ signed = None
    /\ verdict = None

NextSign ==
    \/ \E key \in MacKeys : Sign(key)
    \/ \E key \in MacKeys : Verify(key)
    \/ \E field \in {"ephemeral", "ciphertext", "mac"}, bytes \in Blobs : Tamper(field, bytes)
    \/ \E unsigned \in Unsigneds : TamperUnsigned(unsigned)

SpecSign == InitSign /\ [][NextSign]_vars

(***************************************************************************)
(* The specification of the backup: a backup key is built, given a version  *)
(* or not, and encrypts a session; the envelope is uploaded and verified.   *)
(***************************************************************************)
NewBackupKey(key, mac_key, version) ==
    /\ backup_key = None
    /\ backup_key' = Some([key |-> key, mac_key |-> mac_key, signatures |-> {},
                           version |-> version])
    /\ UNCHANGED <<inbox, sessions, made, cells, lock, flags, tasks, err,
                   envelope, signed, verdict>>

FromBase64(public_key) ==
    /\ backup_key = None
    /\ LET key == base64_decode(public_key) IN
       IF key.ok
       THEN /\ backup_key' = Some([key |-> key.val, mac_key |-> None, signatures |-> {},
                                   version |-> None])
            /\ UNCHANGED err
       ELSE /\ err' = Some([type |-> "DecodeError"])
            /\ UNCHANGED backup_key
    /\ UNCHANGED <<inbox, sessions, made, cells, lock, flags, tasks,
                   envelope, signed, verdict>>

SetVersion(version) ==
    /\ backup_key.some
    /\ backup_key' = Some([backup_key.val EXCEPT !.version = Some(version)])
    /\ UNCHANGED <<inbox, sessions, made, cells, lock, flags, tasks, err,
                   envelope, signed, verdict>>

CallEncrypt(t, i) ==
    /\ backup_key.some
    /\ tasks[t].pc = "idle"
    /\ tasks' = [tasks EXCEPT ![t] = [pc |-> "lock", op |-> "encrypt", self |-> i]]
    /\ UNCHANGED <<inbox, sessions, made, cells, lock, flags, err>>
    /\ UNCHANGED backup_vars

FinishEncrypt(t, ephemeral) ==
    /\ tasks[t].pc = "locked" /\ tasks[t].op = "encrypt"
    /\ LET i == tasks[t].self IN
       /\ tasks' = [tasks EXCEPT ![t] =
                       [pc |-> "done", op |-> "encrypt", self |-> i,
                        res |-> encrypt(backup_key.val, sessions[i],
                                        to_backup(sessions[i], Ratchet(i)), ephemeral)]]
       /\ Release(t, sessions[i].inner)
    /\ UNCHANGED <<inbox, sessions, made, cells, flags, err>>
    /\ UNCHANGED backup_vars

\* The caller sends the envelope of the record to the server.
Upload(t) ==
    /\ tasks[t].pc = "done" /\ tasks[t].op = "encrypt"
    /\ ~tasks[t].res.panic
    /\ envelope' = Some(tasks[t].res.session_data)
    /\ verdict' = None
    /\ tasks' = [tasks EXCEPT ![t] = Idle]
    /\ UNCHANGED <<inbox, sessions, made, cells, lock, flags, err, backup_key, signed>>

\* The record of a finished encrypt is opened with a private key and, if it
\* opens, restored under the room of the session it was made of.
RestoreEncrypted(t, secret) ==
    /\ Finished(t, "encrypt")
    /\ ~tasks[t].res.panic
    /\ Len(sessions) < MaxSessions
    /\ LET s == sessions[tasks[t].self]
           key == decrypt_session_data(secret, tasks[t].res.session_data)
       IN IF key.ok
          THEN Construct(from_backup(s.room_id, key.val),
                         [ctor |-> "from_backup", src |-> tasks[t].self,
                          input |-> [room_id |-> s.room_id, backup |-> key.val]])
          ELSE /\ err' = Some(key.err)
               /\ UNCHANGED <<sessions, made, cells, lock, flags>>
    /\ tasks' = [tasks EXCEPT ![t] = Idle]
    /\ UNCHANGED inbox
    /\ UNCHANGED backup_vars

NextBackup ==
    \/ \E mac_key \in {None} \cup {Some(k) : k \in MacKeys}, version \in {None, Some("1")} :
          NewBackupKey("backupPk", mac_key, version)
    \/ \E public_key \in {base64_encode("backupPk"), [b64 |-> None]} : FromBase64(public_key)
    \/ SetVersion("1")
    \/ \E t \in Tasks, i \in Objects : CallEncrypt(t, i)
    \/ \E t \in Tasks : Acquire(t)
    \/ \E t \in Tasks, ephemeral \in {"ephA", "ephB"} : FinishEncrypt(t, ephemeral)
    \/ \E t \in Tasks : Return(t)
    \/ \E t \in Tasks : Upload(t)
    \/ \E key \in MacKeys : Verify(key)
    \/ \E t \in Tasks, secret \in {"backupSk", "otherSk"} : RestoreEncrypted(t, secret)

SpecBackup == InitSession /\ [][NextBackup]_vars

(***************************************************************************)
(* The specifications of shared use: a session, a clone of it and the      *)
(* session restored from its pickle are used by several tasks, which may   *)
(* abandon a call that waits for a lock (SpecShared) and which read and    *)
(* write the backed_up flag between the other operations (SpecOps).        *)
(***************************************************************************)
\* backed_up(): `self.backed_up.load(SeqCst)`
LoadBackedUp(t, i) ==
    /\ tasks[t].pc = "idle"
    /\ tasks' = [tasks EXCEPT ![t] =
                    [pc |-> "done", op |-> "backed_up", self |-> i, res |-> backed_up(i)]]
    /\ UNCHANGED <<inbox, sessions, made, cells, lock, flags, err>>
    /\ UNCHANGED backup_vars

\* mark_as_backed_up() with the flag kept behind the ratchet lock.
MarkAsBackedUp_UnderLock(t, i) ==
    /\ tasks[t].pc = "idle"
    /\ lock[sessions[i].inner] = 0
    /\ flags' = [flags EXCEPT ![sessions[i].backed_up] = TRUE]
    /\ tasks' = [tasks EXCEPT ![t] =
                    [pc |-> "done", op |-> "mark_as_backed_up", self |-> i]]
    /\ UNCHANGED <<inbox, sessions, made, cells, lock, err>>
    /\ UNCHANGED backup_vars

\* mark_as_backed_up(): `self.backed_up.store(true, SeqCst)`
MarkAsBackedUp(t, i) ==
    /\ tasks[t].pc = "idle"
    /\ flags' = [flags EXCEPT ![sessions[i].backed_up] = TRUE]
    /\ tasks' = [tasks EXCEPT ![t] =
                    [pc |-> "done", op |-> "mark_as_backed_up", self |-> i]]
    /\ UNCHANGED <<inbox, sessions, made, cells, lock, err>>
    /\ UNCHANGED backup_vars

\* reset_backup_state(): `self.backed_up.store(false, SeqCst)`
ResetBackupState(t, i) ==
    /\ tasks[t].pc = "idle"
    /\ flags' = [flags EXCEPT ![sessions[i].backed_up] = FALSE]
    /\ tasks' = [tasks EXCEPT ![t] =
                    [pc |-> "done", op |-> "reset_backup_state", self |-> i]]
    /\ UNCHANGED <<inbox, sessions, made, cells, lock, err>>
    /\ UNCHANGED backup_vars

\* The caller drops the future of a call that is suspended in `lock().await`:
\* the task is no longer a waiter, and a guard it holds is not dropped.
Abandon_KeepsGuard(t) ==
    /\ tasks[t].pc \in {"lock", "lock_other", "lock_self"}
    /\ tasks' = [tasks EXCEPT ![t] =
                    [pc |-> "done", op |-> "abandoned", self |-> tasks[t].self]]
    /\ UNCHANGED <<inbox, sessions, made, cells, lock, flags, err>>
    /\ UNCHANGED backup_vars

\* The caller drops the future of a call that is suspended in `lock().await`:
\* the task is no longer a waiter, and a guard it holds is dropped with it.
Abandon(t) ==
    /\ tasks[t].pc \in {"lock", "lock_other", "lock_self"}
    /\ tasks' = [tasks EXCEPT ![t] =
                    [pc |-> "done", op |-> "abandoned", self |-> tasks[t].self]]
    /\ lock' = [c \in DOMAIN lock |-> IF lock[c] = t THEN 0 ELSE lock[c]]
    /\ UNCHANGED <<inbox, sessions, made, cells, flags, err>>
    /\ UNCHANGED backup_vars

\* The event the tasks decrypt: the session's message at the last index.
SharedEvent ==
    [content |-> [scheme |-> "MegolmV1AesSha2",
                  ciphertext |-> [key |-> 1, index |-> MaxIndex,
                                  plaintext |-> [json |-> TRUE,
                                                 value |-> PlainObject(
                                                     Some(JString("!a:localhost")),
                                                     None, FALSE)]],
                  relates_to |-> None],
     sender |-> "@alice:localhost", event_id |-> "$event", origin_server_ts |-> 1,
     unsigned |-> JObject([age |-> JNumber(1)])]

InitShared(n) ==
    /\ LET a == new("curveA", "edA", "!a:localhost", [key |-> 1, index |-> 0],
                    MegolmV1AesSha2, None).val
           r == from_pickle(pickle(a, a.inner, a.backed_up)).val
       IN /\ sessions = <<Alloc(a, 1, 1), Alloc(a, 1, 1), Alloc(r, 2, 2)>>
          /\ cells = <<a.inner, r.inner>>
          /\ flags = <<a.backed_up, r.backed_up>>
          /\ made = <<[ctor |-> "new"], [ctor |-> "clone", src |-> 1],
                      [ctor |-> "from_pickle", src |-> 1]>>
    /\ inbox = None
    /\ lock = <<0, 0>>
    /\ tasks = [t \in 1 .. n |-> Idle]
    /\ err = None
    /\ backup_key = Some([key |-> "backupPk", mac_key |-> Some("macA"),
                          signatures |-> {}, version |-> Some("1")])
    /\ envelope = None
    /\ signed = None
    /\ verdict = None

\* The operations that take the ratchet lock, and the abandoning of them.
NextShared ==
    \/ \E t \in Tasks, i \in Objects : CallDecrypt(t, i, SharedEvent)
    \/ \E t \in Tasks, i \in Objects : CallExportAtIndex(t, i, MaxIndex)
    \/ \E t \in Tasks, i \in Objects : CallPickle(t, i)
    \/ \E t \in Tasks, i \in Objects : CallToBackup(t, i)
    \/ \E t \in Tasks, a \in Objects, b \in Objects : CallCompare(t, a, b)
    \/ \E t \in Tasks : Acquire(t)
    \/ \E t \in Tasks : CompareLockOther(t)
    \/ \E t \in Tasks : CompareLockSelf(t)
    \/ \E t \in Tasks : FinishDecrypt(t)
    \/ \E t \in Tasks : FinishExportAtIndex(t)
    \/ \E t \in Tasks : FinishPickle(t)
    \/ \E t \in Tasks : FinishToBackup(t)
    \/ \E t \in Tasks : FinishCompare(t)
    \/ \E t \in Tasks : Abandon(t)
    \/ \E t \in Tasks : Return(t)

SpecShared == InitShared(NumTasks) /\ [][NextShared]_vars

\* Every operation of a session, the backup of it and its backed_up flag,
\* called by two tasks.
NextOps ==
    \/ \E t \in Tasks, i \in Objects : CallDecrypt(t, i, SharedEvent)
    \/ \E t \in Tasks, i \in Objects, n \in Indices : CallExportAtIndex(t, i, n)
    \/ \E t \in Tasks, i \in Objects : CallPickle(t, i)
    \/ \E t \in Tasks, i \in Objects : CallToBackup(t, i)
    \/ \E t \in Tasks, i \in Objects : CallEncrypt(t, i)
    \/ \E t \in Tasks, a \in Objects, b \in Objects : CallCompare(t, a, b)
    \/ \E t \in Tasks : Acquire(t)
    \/ \E t \in Tasks : CompareLockOther(t)
    \/ \E t \in Tasks : CompareLockSelf(t)
    \/ \E t \in Tasks : FinishDecrypt(t)
    \/ \E t \in Tasks : FinishExportAtIndex(t)
    \/ \E t \in Tasks : FinishPickle(t)
    \/ \E t \in Tasks : FinishToBackup(t)
    \/ \E t \in Tasks : FinishEncrypt(t, "ephA")
    \/ \E t \in Tasks : FinishCompare(t)
    \/ \E t \in Tasks, i \in Objects : LoadBackedUp(t, i)
    \/ \E t \in Tasks, i \in Objects : MarkAsBackedUp(t, i)
    \/ \E t \in Tasks, i \in Objects : ResetBackupState(t, i)
    \/ \E t \in Tasks : Return(t)

SpecOps == InitShared(2) /\ [][NextOps]_vars

(***************************************************************************)
(* The specification of pickling: a session built from any received       *)
(* record is marked and unmarked as backed up, cloned, pickled and         *)
(* restored.                                                               *)
(***************************************************************************)
\* #[derive(Clone)]: the copy holds the same Arc of the ratchet and of the
\* backed_up flag.
Clone(i) ==
    /\ Len(sessions) < MaxSessions
    /\ sessions' = Append(sessions, sessions[i])
    /\ made' = Append(made, [ctor |-> "clone", src |-> i])
    /\ UNCHANGED <<inbox, cells, lock, flags, tasks, err>>
    /\ UNCHANGED backup_vars

NextPickle ==
    \/ ReceiveRoomKey
    \/ ReceiveExport
    \/ ReceiveBackup
    \/ ReceiveForwarded
    \/ \E t \in Tasks, i \in Objects : MarkAsBackedUp(t, i)
    \/ \E t \in Tasks, i \in Objects : ResetBackupState(t, i)
    \/ \E t \in Tasks, i \in Objects : CallPickle(t, i)
    \/ \E t \in Tasks : Acquire(t)
    \/ \E t \in Tasks : FinishPickle(t)
    \/ \E t \in Tasks : Return(t)
    \/ \E t \in Tasks : RestorePickle(t)
    \/ \E i \in Objects : Clone(i)

SpecPickle == Init /\ [][NextPickle]_vars

(***************************************************************************)
(* The specification of fair scheduling: NumTasks tasks finish every call  *)
(* they start (none is abandoned), a call that can take its lock again and *)
(* again does take it, and no compare starts while a compare of the same   *)
(* two ratchets in the other direction is under way.                       *)
(***************************************************************************)
\* Two sessions of one creator and room over different ratchets: the
\* message of the first is an error for the second, and comparing them takes
\* both locks.
InitFair ==
    /\ LET a == new("curveA", "edA", "!a:localhost", [key |-> 1, index |-> 0],
                    MegolmV1AesSha2, None).val
           b == new("curveA", "edA", "!a:localhost", [key |-> 2, index |-> 0],
                    MegolmV1AesSha2, None).val
       IN /\ sessions = <<Alloc(a, 1, 1), Alloc(b, 2, 2)>>
          /\ cells = <<a.inner, b.inner>>
          /\ flags = <<a.backed_up, b.backed_up>>
          /\ made = <<[ctor |-> "new"], [ctor |-> "new"]>>
    /\ inbox = None
    /\ lock = <<0, 0>>
    /\ tasks = [t \in 1 .. NumTasks |-> Idle]
    /\ err = None
    /\ NoBackup

\* The first message of the first session: decrypting it leaves the ratchet
\* where it is.
FirstEvent == [SharedEvent EXCEPT !.content.ciphertext.index = 0]

\* A compare of the ratchets of b and a, in that direction, is under way in
\* another task.
Opposed(t, a, b) ==
    \E u \in Tasks \ {t} :
        /\ tasks[u].pc \in {"lock_other", "lock_self", "locked_both"}
        /\ sessions[tasks[u].self].inner = sessions[b].inner
        /\ sessions[tasks[u].other].inner = sessions[a].inner

\* The steps of a call that was started.
Proceed(t) ==
    \/ Acquire(t)
    \/ CompareLockOther(t)
    \/ CompareLockSelf(t)
    \/ FinishDecrypt(t)
    \/ FinishExportAtIndex(t)
    \/ FinishPickle(t)
    \/ FinishToBackup(t)
    \/ FinishCompare(t)

NextFair ==
    \/ \E t \in Tasks, i \in Objects : CallDecrypt(t, i, FirstEvent)
    \/ \E t \in Tasks, i \in Objects : CallExportAtIndex(t, i, MaxIndex)
    \/ \E t \in Tasks, i \in Objects : CallPickle(t, i)
    \/ \E t \in Tasks, i \in Objects : CallToBackup(t, i)
    \/ \E t \in Tasks, a \in Objects, b \in Objects :
          ~Opposed(t, a, b) /\ CallCompare(t, a, b)
    \/ \E t \in Tasks : Proceed(t)
    \/ \E t \in Tasks : Return(t)

SpecFair ==
    /\ InitFair
    /\ [][NextFair]_vars
    /\ \A t \in 1 .. NumTasks : SF_vars(Proceed(t))

(***************************************************************************)
(* Properties of a session's life (specification Spec)                     *)
(***************************************************************************)

\* C1: every session object's cached session_id is the id derived from its own
\* ratchet, and its cached first_known_index is the ratchet's first known
\* index, whichever constructor built it.
C1_CachedIdentityIsDerived ==
    \A i \in Objects :
        /\ sessions[i].session_id = SessionIdOf(Ratchet(i).key)
        /\ sessions[i].first_known_index = Ratchet(i).initial

\* C2: a session restored by from_pickle from the pickle of session s has the
\* session_id and the first_known_index of s, and both are the values derived
\* from the restored ratchet.
C2_PickleRoundTripKeepsIdentity ==
    \A i \in Objects :
        made[i].ctor = "from_pickle" =>
            /\ sessions[i].session_id = sessions[made[i].src].session_id
            /\ sessions[i].first_known_index = sessions[made[i].src].first_known_index
            /\ sessions[i].session_id = SessionIdOf(Ratchet(i).key)
            /\ sessions[i].first_known_index = Ratchet(i).initial

\* C5: has_been_imported() is false exactly for key_source Direct, and true
\* for Backup with any hint, for Forward and for OldStyleImport.
C5_ImportedUnlessDirect ==
    \A i \in Objects :
        /\ sessions[i].key_source \in KeySources
        /\ sessions[i].key_source = [tag |-> "Direct"]
               => has_been_imported(sessions[i]) = FALSE
        /\ sessions[i].key_source.tag \in {"Backup", "Forward", "OldStyleImport"}
               => has_been_imported(sessions[i]) = TRUE

C5_Witness ==
    \E i, j \in Objects :
        /\ sessions[i].key_source.tag = "Direct"
        /\ sessions[j].key_source.tag = "Backup"
        /\ sessions[j].key_source.unauthenticated = None
        /\ ~has_been_imported(sessions[i])
        /\ has_been_imported(sessions[j])

\* C6: new() yields key_source Direct, from_export() yields OldStyleImport, and
\* construction from a forwarded room key of either content variant yields
\* Forward.
C6_ConstructorFixesKeySource ==
    \A i \in Objects :
        /\ made[i].ctor = "new" => sessions[i].key_source = [tag |-> "Direct"]
        /\ made[i].ctor = "from_export"
               => sessions[i].key_source = [tag |-> "OldStyleImport"]
        /\ made[i].ctor = "forwarded" => sessions[i].key_source = [tag |-> "Forward"]

C6_Witness ==
    \E i, j \in Objects :
        /\ made[i].ctor = "forwarded"
        /\ made[i].input.content.variant = "MegolmV2AesSha2"
        /\ made[j].ctor = "from_export"
        /\ made[j].src = i

\* C7: the hint of the record to_backup() returns is a function of key_source
\* alone: Direct gives none, Backup{x} gives x, Forward gives Forwarded and
\* OldStyleImport gives Undefined.
C7_BackupHintOfKeySource ==
    \A t \in Tasks :
        (tasks[t].pc = "done" /\ tasks[t].op = "to_backup" /\ ~tasks[t].res.panic) =>
            LET ks == sessions[tasks[t].self].key_source
                hint == tasks[t].res.unauthenticated
            IN /\ ks.tag = "Direct" => hint = [some |-> FALSE]
               /\ ks.tag = "Backup" => hint = ks.unauthenticated
               /\ ks.tag = "Forward" => hint = [some |-> TRUE, val |-> "Forwarded"]
               /\ ks.tag = "OldStyleImport" => hint = [some |-> TRUE, val |-> "Undefined"]

C7_Witness ==
    \E t \in Tasks :
        /\ tasks[t].pc = "done" /\ tasks[t].op = "to_backup"
        /\ sessions[tasks[t].self].key_source.tag = "Forward"
        /\ tasks[t].res.unauthenticated = Some("Forwarded")

\* C8: from_backup(room, b) has key_source Backup{b.unauthenticated}, and the
\* record to_backup() makes of it carries b.unauthenticated again, over
\* repeated backup/restore cycles.
C8_BackupHintSurvivesRestore ==
    /\ \A i \in Objects :
           made[i].ctor = "from_backup" =>
               sessions[i].key_source =
                   [tag |-> "Backup",
                    unauthenticated |-> made[i].input.backup.unauthenticated]
    /\ \A t \in Tasks :
           (/\ tasks[t].pc = "done" /\ tasks[t].op = "to_backup"
            /\ ~tasks[t].res.panic
            /\ made[tasks[t].self].ctor = "from_backup") =>
               tasks[t].res.unauthenticated =
                   made[tasks[t].self].input.backup.unauthenticated

\* A received backup with the Forwarded hint is restored, backed up, restored
\* from that record, and backed up again.
C8_Witness ==
    /\ Len(sessions) = 2
    /\ \A i \in Objects : made[i].ctor = "from_backup"
    /\ made[1].input.backup.unauthenticated = Some("Forwarded")
    /\ made[2].src = 1
    /\ \E t \in Tasks :
           /\ tasks[t].pc = "done" /\ tasks[t].op = "to_backup" /\ tasks[t].self = 2
           /\ tasks[t].res.unauthenticated = Some("Forwarded")

(***************************************************************************)
(* Properties of persistence (specification SpecStored)                    *)
(***************************************************************************)

\* C3: a stored record with only `imported` loads as Direct (not imported) when
\* imported=false and as OldStyleImport (imported) when imported=true; a record
\* with only `key_source` loads with exactly that key_source.
C3_LegacyFlagMigrates ==
    \A i \in Objects :
        made[i].ctor = "load" =>
            LET p == made[i].input IN
            /\ (p.imported = [some |-> TRUE, val |-> FALSE] /\ ~p.key_source.some)
                   => /\ sessions[i].key_source = [tag |-> "Direct"]
                      /\ ~has_been_imported(sessions[i])
            /\ (p.imported = [some |-> TRUE, val |-> TRUE] /\ ~p.key_source.some)
                   => /\ sessions[i].key_source = [tag |-> "OldStyleImport"]
                      /\ has_been_imported(sessions[i])
            /\ (~p.imported.some /\ p.key_source.some)
                   => sessions[i].key_source = p.key_source.val

C3_Witness ==
    \E i \in Objects :
        /\ made[i].ctor = "load"
        /\ made[i].input.imported = Some(TRUE)
        /\ made[i].input.key_source = None
        /\ sessions[i].key_source = OldStyleImport
        /\ has_been_imported(sessions[i])

\* C4: loading a stored record that has both `imported` and `key_source`, or
\* neither, fails with the migration error and builds no session.
C4_AmbiguousRecordRejected ==
    [][(/\ inbox.some /\ inbox.val.kind = "stored" /\ inbox' = None
        /\ inbox.val.val.imported.some = inbox.val.val.key_source.some)
       => /\ sessions' = sessions /\ cells' = cells /\ made' = made
          /\ err'.some
          /\ err'.val.type = "Deserialize"
          /\ err'.val.message =
                 IF inbox.val.val.imported.some
                 THEN "imported and key_source cannot both be provided"
                 ELSE "missing field: key_source"]_vars

C4_Witness ==
    /\ sessions = <<>>
    /\ ~inbox.some
    /\ err.some
    /\ err.val.type = "Deserialize"
    /\ err.val.message = "imported and key_source cannot both be provided"

(***************************************************************************)
(* Properties of decryption (specification SpecDecrypt)                    *)
(***************************************************************************)

\* C9: decrypt returns no event whose plaintext room id is not the session's
\* room: when the ratchet decrypts the message and the plaintext object's
\* room_id is another room, is missing or is no room id, decrypt fails with
\* MismatchedRoom(session room, room found).
C9_RoomBinding ==
    \A t \in Tasks :
        (tasks[t].pc = "done" /\ tasks[t].op = "decrypt") =>
            LET s == sessions[tasks[t].self]
                r == Ratchet(tasks[t].self)
                content == tasks[t].event.content
                plain == content.ciphertext.plaintext
                isObject == plain.json /\ plain.value.t = "object"
                sameRoom == /\ "room_id" \in DOMAIN plain.value.o
                            /\ plain.value.o["room_id"] = [t |-> "string", s |-> s.room_id]
                found == IF /\ "room_id" \in DOMAIN plain.value.o
                            /\ plain.value.o["room_id"].t = "string"
                            /\ plain.value.o["room_id"].s \in Rooms
                         THEN [some |-> TRUE, val |-> plain.value.o["room_id"].s]
                         ELSE [some |-> FALSE]
            IN /\ tasks[t].res.ok =>
                      /\ content.scheme # "Unknown"
                      /\ isObject
                      /\ sameRoom
                      /\ tasks[t].res.val.event.o["room_id"] = [t |-> "string", s |-> s.room_id]
               /\ (/\ content.scheme # "Unknown"
                   /\ content.ciphertext.key = r.key
                   /\ content.ciphertext.index >= r.initial
                   /\ isObject
                   /\ ~sameRoom)
                  => tasks[t].res = [ok |-> FALSE,
                                     err |-> [type |-> "MismatchedRoom",
                                              expected |-> s.room_id, found |-> found]]

\* The ratchet accepted a message whose plaintext names the other room.
C9_Witness ==
    \E t \in Tasks :
        /\ tasks[t].pc = "done" /\ tasks[t].op = "decrypt"
        /\ ~tasks[t].res.ok
        /\ tasks[t].res.err.type = "MismatchedRoom"
        /\ tasks[t].res.err.found.some
        /\ tasks[t].res.err.found.val # sessions[tasks[t].self].room_id
        /\ tasks[t].event.content.ciphertext.key = Ratchet(tasks[t].self).key

(***************************************************************************)
(* Properties of concurrent use (specification SpecConcurrent)             *)
(***************************************************************************)
Holds(t) == {c \in DOMAIN lock : lock[c] = t}

\* C10: compare of a session with itself or with a clone sharing its ratchet
\* cell returns Equal without ever taking or waiting for the ratchet lock,
\* whoever holds that lock.
C10_SameObjectEqualWithoutLock ==
    \A t \in Tasks :
        (/\ tasks[t].pc # "idle" /\ tasks[t].op = "compare"
         /\ sessions[tasks[t].self].inner = sessions[tasks[t].other].inner)
        => /\ tasks[t].pc = "done"
           /\ tasks[t].res = "Equal"
           /\ Holds(t) = {}

\* The comparison of the session with its clone has returned while another
\* task is inside pickle() with the lock of their shared ratchet.
C10_Witness ==
    \E t, u \in Tasks :
        /\ t # u
        /\ tasks[t].pc = "done" /\ tasks[t].op = "compare"
        /\ tasks[t].self # tasks[t].other
        /\ sessions[tasks[t].self].inner = sessions[tasks[t].other].inner
        /\ tasks[t].res = "Equal"
        /\ tasks[u].pc = "locked"
        /\ lock[sessions[tasks[t].self].inner] = u

\* C11: compare of two distinct session objects that differ in the creator's
\* identity key, the claimed signing keys, the algorithm or the room returns
\* Unconnected whatever their ratchets hold, and takes no ratchet lock.
C11_DifferentIdentityUnconnected ==
    \A t \in Tasks :
        (/\ tasks[t].pc # "idle" /\ tasks[t].op = "compare"
         /\ LET self == sessions[tasks[t].self]
                other == sessions[tasks[t].other]
            IN /\ self.inner # other.inner
               /\ \/ self.creator_info.curve25519_key # other.creator_info.curve25519_key
                  \/ self.creator_info.signing_keys # other.creator_info.signing_keys
                  \/ self.algorithm # other.algorithm
                  \/ self.room_id # other.room_id)
        => /\ tasks[t].pc = "done"
           /\ tasks[t].res = "Unconnected"
           /\ Holds(t) = {}

\* Two sessions over the same ratchet key that differ in the algorithm alone
\* have been found Unconnected while another task holds the lock of one of
\* the two ratchets inside pickle().
C11_Witness ==
    \E t, u \in Tasks :
        /\ t # u
        /\ tasks[t].pc = "done" /\ tasks[t].op = "compare"
        /\ tasks[t].res = "Unconnected"
        /\ LET self == sessions[tasks[t].self]
               other == sessions[tasks[t].other]
           IN /\ self.inner # other.inner
              /\ cells[self.inner].key = cells[other.inner].key
              /\ self.creator_info = other.creator_info
              /\ self.room_id = other.room_id
              /\ self.algorithm # other.algorithm
              /\ tasks[u].pc = "locked"
              /\ lock[other.inner] = u

(***************************************************************************)
(* Properties of comparison in a session's life (specification SpecCompare)*)
(***************************************************************************)
\* C12: a session imported from the export of a session s at an index above
\* the first known index of s is Worse than s, and s is Better than it.
C12_LaterExportIsWorse ==
    \A t \in Tasks :
        (tasks[t].pc = "done" /\ tasks[t].op = "compare")
        => LET s == tasks[t].self
               w == tasks[t].other
           IN /\ (/\ made[w].ctor = "from_export" /\ "src" \in DOMAIN made[w]
                  /\ made[w].src = s
                  /\ made[w].index > sessions[s].first_known_index)
                 => tasks[t].res = "Better"
              /\ (/\ made[s].ctor = "from_export" /\ "src" \in DOMAIN made[s]
                  /\ made[s].src = w
                  /\ made[s].index > sessions[w].first_known_index)
                 => tasks[t].res = "Worse"

\* A session that starts at index 0 has been found Better than the import of
\* its export at a later index.
C12_Witness ==
    \E t \in Tasks :
        /\ tasks[t].pc = "done" /\ tasks[t].op = "compare"
        /\ made[tasks[t].other].ctor = "from_export"
        /\ "src" \in DOMAIN made[tasks[t].other]
        /\ made[tasks[t].other].src = tasks[t].self
        /\ made[tasks[t].other].index > sessions[tasks[t].self].first_known_index
        /\ cells[sessions[tasks[t].other].inner].initial
               > cells[sessions[tasks[t].self].inner].initial
        /\ tasks[t].res = "Better"

RestoredFrom(i, j) == made[i].ctor = "from_pickle" /\ made[i].src = j

\* C13: the session restored from the pickle of s has a ratchet cell, and so
\* a lock, of its own; compare(s, restored) is not decided before the locks
\* but goes on to take them, and returns Equal.
C13_RestoredIsEqualThroughRatchets ==
    /\ [](\A i, j \in Objects :
            RestoredFrom(i, j) => sessions[i].inner # sessions[j].inner)
    /\ [](\A t \in Tasks :
            (/\ tasks[t].pc = "done" /\ tasks[t].op = "compare"
             /\ RestoredFrom(tasks[t].other, tasks[t].self))
            => tasks[t].res = "Equal")
    /\ [][\A t \in Tasks :
            (/\ tasks[t].pc = "idle" /\ tasks'[t].pc # "idle"
             /\ tasks'[t].op = "compare"
             /\ RestoredFrom(tasks'[t].other, tasks'[t].self))
            => tasks'[t].pc = "lock_other"]_vars

\* The comparison of a session with the session restored from its pickle has
\* returned Equal.
C13_Witness ==
    \E t \in Tasks :
        /\ tasks[t].pc = "done" /\ tasks[t].op = "compare"
        /\ RestoredFrom(tasks[t].other, tasks[t].self)
        /\ sessions[tasks[t].other].inner # sessions[tasks[t].self].inner
        /\ tasks[t].res = "Equal"

\* C14: export_at_index below the first known index returns the record of
\* export_at_index at the first known index, and no export asks the ratchet
\* for an index below its first one.
C14_ExportClampsToFloor ==
    \A t \in Tasks :
        (tasks[t].pc = "done" /\ tasks[t].op = "export_at_index")
        => LET s == sessions[tasks[t].self]
               r == Ratchet(tasks[t].self)
           IN /\ ~tasks[t].res.panic
              /\ tasks[t].res.session_key.index >= InnerFirstKnownIndex(r)
              /\ tasks[t].index < s.first_known_index
                 => tasks[t].res = export_at_index(s, r, s.first_known_index)

\* A session whose ratchet starts above 0 has been exported at index 0 and
\* the record holds the key at the first known index.
C14_Witness ==
    \E t \in Tasks :
        /\ tasks[t].pc = "done" /\ tasks[t].op = "export_at_index"
        /\ tasks[t].index < sessions[tasks[t].self].first_known_index
        /\ ~tasks[t].res.panic
        /\ tasks[t].res.session_key.index = sessions[tasks[t].self].first_known_index

(***************************************************************************)
(* Properties of the backup MAC (specification SpecSign)                   *)
(***************************************************************************)
Verified(key) == verdict.some /\ verdict.val.op = "verify" /\ verdict.val.key = key

Core(value) == <<value.ephemeral, value.ciphertext, value.mac>>

\* C15: an envelope that sign(k) accepted and left signed passes verify(k).
C15_SignedEnvelopeVerifies ==
    (/\ signed.some
     /\ envelope = Some(signed.val.value)
     /\ Verified(signed.val.key))
    => verdict.val.res = Ok("()")

\* An envelope with extra fields has been signed and has passed verify under
\* the signing key.
C15_Witness ==
    /\ signed.some
    /\ envelope = Some(signed.val.value)
    /\ DOMAIN envelope.val.other # {}
    /\ Verified(signed.val.key)
    /\ verdict.val.res = Ok("()")

BackupMac(value) == IF value.unsigned.some THEN value.unsigned.val.backup_mac ELSE None

\* the backup MAC is there and is not base 64 of the tag of the key over the
\* bytes of the envelope
Mismatched(key, value) ==
    /\ BackupMac(value).some
    /\ \/ ~make_signable_json(value).ok
       \/ BackupMac(value).val.b64
              # Some(calculate_hmac(key, make_signable_json(value).val))

NotCanonical(value) == \E k \in DOMAIN value.other : value.other[k].t = "float"

Encrypted(t) == tasks[t].pc = "done" /\ tasks[t].op = "encrypt" /\ ~tasks[t].res.panic

\* C18: the record encrypt returns has forwarded_count 1 for a session that
\* has been imported and 0 for one that has not, the first known index of
\* the session as first_message_index, and is_verified false.
C18_BackupRecordFields ==
    \A t \in Tasks :
        Encrypted(t)
        => LET session == sessions[tasks[t].self] IN
           /\ tasks[t].res.forwarded_count
                  = (IF session.key_source = Direct THEN 0 ELSE 1)
           /\ tasks[t].res.first_message_index = InnerFirstKnownIndex(Ratchet(tasks[t].self))
           /\ tasks[t].res.is_verified = FALSE

\* A session restored from a backup, whose ratchet starts above 0, has been
\* encrypted: the record counts one forward and starts at that index.
C18_Witness ==
    \E t \in Tasks :
        /\ Encrypted(t)
        /\ sessions[tasks[t].self].key_source \in {Backup(u) : u \in UnauthenticatedSources}
        /\ tasks[t].res.forwarded_count = 1
        /\ tasks[t].res.first_message_index > 0
        /\ tasks[t].res.is_verified = FALSE

\* C19: the envelope encrypt returns holds a backup MAC exactly when the
\* backup key has a MAC key, and the uploaded envelope passes verify under
\* that MAC key.
C19_SignedIffMacKey ==
    /\ \A t \in Tasks :
           Encrypted(t)
           => (BackupMac(tasks[t].res.session_data).some <=> backup_key.val.mac_key.some)
    /\ (envelope.some /\ backup_key.val.mac_key.some)
       => /\ BackupMac(envelope.val).some
          /\ Verified(backup_key.val.mac_key.val) => verdict.val.res = Ok("()")

\* The envelope made with a backup key that has a MAC key has been uploaded
\* and has passed verify under that MAC key.
C19_Witness ==
    /\ envelope.some
    /\ backup_key.val.mac_key.some
    /\ BackupMac(envelope.val).some
    /\ Verified(backup_key.val.mac_key.val)
    /\ verdict.val.res = Ok("()")

\* The envelope made with a backup key built from base 64 holds no backup
\* MAC.
C19_WitnessUnsigned ==
    \E t \in Tasks :
        /\ Encrypted(t)
        /\ ~backup_key.val.mac_key.some
        /\ ~BackupMac(tasks[t].res.session_data).some

\* C20: encrypt returns a backup record only when the backup key has a
\* version, given at construction or set with set_version.
C20_EncryptNeedsVersion ==
    \A t \in Tasks : Encrypted(t) => backup_key.val.version.some

(***************************************************************************)
(* Further properties of decryption (specification SpecDecrypt)            *)
(***************************************************************************)
UnknownScheme(task) == task.op = "decrypt" /\ task.event.content.scheme = "Unknown"

\* C28: decrypt of an event whose scheme is not known is over at once with
\* UnsupportedAlgorithm: the task never waits for or holds the lock, and the
\* call leaves the sessions, the ratchets, the locks and the flags as they
\* were.
C28_UnknownSchemeFailsUnlocked ==
    /\ [](\A t \in Tasks :
            (tasks[t].pc # "idle" /\ UnknownScheme(tasks[t]))
            => /\ tasks[t].pc = "done"
               /\ tasks[t].res = Err([type |-> "UnsupportedAlgorithm"])
               /\ Holds(t) = {})
    /\ [][\A t \in Tasks :
            (tasks[t].pc = "idle" /\ tasks'[t].pc # "idle" /\ UnknownScheme(tasks'[t]))
            => UNCHANGED <<sessions, cells, lock, flags>>]_vars

\* A decrypt of an event of unknown scheme has failed with
\* UnsupportedAlgorithm and the lock of the session is free.
C28_Witness ==
    \E t \in Tasks :
        /\ tasks[t].pc = "done" /\ UnknownScheme(tasks[t])
        /\ tasks[t].res = Err([type |-> "UnsupportedAlgorithm"])
        /\ lock[sessions[tasks[t].self].inner] = 0

\* C30: in the event a successful decrypt returns, sender, event_id,
\* origin_server_ts and unsigned are those of the encrypted event, whatever
\* the plaintext holds under these names.
C30_OuterFieldsOverride ==
    \A t \in Tasks :
        (tasks[t].pc = "done" /\ tasks[t].op = "decrypt" /\ tasks[t].res.ok)
        => LET outer == tasks[t].event
               result == tasks[t].res.val.event.o
           IN /\ result["sender"] = [t |-> "string", s |-> outer.sender]
              /\ result["event_id"] = [t |-> "string", s |-> outer.event_id]
              /\ result["origin_server_ts"] = [t |-> "number", n |-> outer.origin_server_ts]
              /\ result["unsigned"] = outer.unsigned

\* A plaintext that names a sender, an event id, a timestamp and an unsigned
\* block of its own has been decrypted.
C30_Witness ==
    \E t \in Tasks :
        /\ tasks[t].pc = "done" /\ tasks[t].op = "decrypt" /\ tasks[t].res.ok
        /\ LET plain == tasks[t].event.content.ciphertext.plaintext.value.o IN
           /\ {"sender", "event_id", "origin_server_ts", "unsigned"} \subseteq DOMAIN plain
           /\ plain["sender"].s # tasks[t].event.sender
           /\ plain["unsigned"] # tasks[t].event.unsigned
        /\ tasks[t].res.val.event.o["sender"].s = tasks[t].event.sender

(***************************************************************************)
(* Further properties of a session's life (specification Spec)             *)
(***************************************************************************)
UnknownForwarded ==
    /\ inbox.some /\ inbox.val.kind = "forwarded"
    /\ inbox.val.content.variant = "Unknown"

\* C29: a forwarded room key of an algorithm that is not supported builds no
\* session: the construction fails with the Algorithm error that names the
\* algorithm of the content.
C29_UnknownForwardedRejected ==
    [][(UnknownForwarded /\ inbox' # inbox)
       => /\ UNCHANGED <<sessions, cells, lock, flags, made>>
          /\ err' = Some([type |-> "Algorithm",
                           algorithm |-> inbox.val.content.algorithm])]_vars

\* The forwarded room key of an unknown algorithm has been refused.
C29_Witness ==
    /\ inbox = None
    /\ sessions = <<>>
    /\ err = Some([type |-> "Algorithm", algorithm |-> UnknownAlgorithm])

(***************************************************************************)
(* Further properties of concurrent use (specification SpecConcurrent)     *)
(***************************************************************************)
\* Two comparisons of one pair of sessions in opposite directions: each task
\* holds the lock of the session it was given as `other` and waits for the
\* lock of its `self`, which the other task holds.
Crossed(t, u) ==
    /\ t # u
    /\ tasks[t].pc = "lock_self" /\ tasks[u].pc = "lock_self"
    /\ tasks[t].self = tasks[u].other /\ tasks[t].other = tasks[u].self
    /\ lock[sessions[tasks[t].other].inner] = t
    /\ lock[sessions[tasks[u].other].inner] = u

\* C24: compare(a, b) and compare(b, a) on two distinct connected sessions
\* can come to hold one lock each and wait for the other's, and once they
\* do, they do for ever: nothing in compare gives a lock back.
C24_CrossedComparisonsStayBlocked ==
    [][\A t, u \in Tasks : Crossed(t, u) => Crossed(t, u)']_vars

\* Two tasks compare a session and the import of its export in opposite
\* directions, and each holds the lock the other waits for.
C24_Witness ==
    \E t, u \in Tasks :
        /\ Crossed(t, u)
        /\ sessions[tasks[t].self].inner # sessions[tasks[t].other].inner
        /\ cells[sessions[tasks[t].self].inner].key = cells[sessions[tasks[t].other].inner].key

\* C25: a task in compare(self, other) never holds the lock of other without
\* holding the lock of self.
C25_SelfLockedBeforeOther ==
    \A t \in Tasks :
        (tasks[t].pc # "idle" /\ tasks[t].op = "compare")
        => ~(/\ lock[sessions[tasks[t].other].inner] = t
             /\ lock[sessions[tasks[t].self].inner] # t)


(***************************************************************************)
(* Properties of shared use (specification SpecShared)                     *)
(***************************************************************************)
\* The ratchets a task reads or writes at its position.
Touching(t) ==
    CASE tasks[t].pc = "locked" -> {sessions[tasks[t].self].inner}
      [] tasks[t].pc = "locked_both" ->
             {sessions[tasks[t].self].inner, sessions[tasks[t].other].inner}
      [] OTHER -> {}

\* C22: under every interleaving of decrypt, export_at_index, pickle,
\* to_backup and compare on a session and its clones, a task touches a
\* ratchet only while it holds the ratchet's lock, no two tasks touch the
\* same ratchet at once, a ratchet changes only while it is touched, and a
\* task takes a lock only when nobody holds it (it waits otherwise).
C22_RatchetAccessIsExclusive ==
    /\ [](\A t \in Tasks :
            /\ Touching(t) \subseteq Holds(t)
            /\ \A u \in Tasks \ {t} : Touching(t) \cap Touching(u) = {})
    /\ [][/\ \A c \in DOMAIN cells :
               cells'[c] # cells[c] => \E t \in Tasks : c \in Touching(t)
          /\ \A t \in Tasks, c \in DOMAIN lock :
               lock'[c] = t /\ lock[c] # t => lock[c] = 0]_vars

\* Two tasks use the same ratchet through a session and its clone: one is
\* inside decrypt while the other waits for the lock.
C22_Witness ==
    \E t, u \in Tasks :
        /\ t # u
        /\ tasks[t].pc = "locked" /\ tasks[t].op = "decrypt" /\ tasks[t].self = 1
        /\ tasks[u].pc = "lock" /\ tasks[u].self = 2
        /\ lock[sessions[2].inner] = t


\* The task's call was abandoned while it waited for a lock.
Abandoned(t) == tasks[t].pc = "done" /\ tasks[t].op = "abandoned"

\* The lock a suspended task waits for.
Awaited(t) ==
    IF tasks[t].pc = "lock_other"
    THEN sessions[tasks[t].other].inner
    ELSE sessions[tasks[t].self].inner

Completes(t, op) ==
    tasks[t].pc = "idle" /\ tasks'[t].pc = "done" /\ tasks'[t].op = op

\* C23: backed_up(), mark_as_backed_up() and reset_backup_state() never wait
\* for the ratchet lock: an idle task can complete each of them in every
\* state, whoever holds the lock. The flag is sequentially consistent: a
\* mark sets it, a reset clears it, nothing else changes it, and a read
\* through the session or a clone returns its current value.
C23_FlagNeverWaits ==
    /\ [](\A t \in Tasks, i \in Objects :
            tasks[t].pc = "idle" =>
                /\ ENABLED LoadBackedUp(t, i)
                /\ ENABLED MarkAsBackedUp(t, i)
                /\ ENABLED ResetBackupState(t, i))
    /\ [][\A t \in Tasks :
            /\ Completes(t, "backed_up") =>
                   tasks'[t].res = flags[sessions[tasks'[t].self].backed_up]
            /\ Completes(t, "mark_as_backed_up") =>
                   flags'[sessions[tasks'[t].self].backed_up] = TRUE
            /\ Completes(t, "reset_backup_state") =>
                   flags'[sessions[tasks'[t].self].backed_up] = FALSE]_vars
    /\ [][\A f \in DOMAIN flags :
            flags'[f] # flags[f] =>
                \E t \in Tasks :
                    /\ Completes(t, "mark_as_backed_up") \/ Completes(t, "reset_backup_state")
                    /\ sessions[tasks'[t].self].backed_up = f]_vars

\* A task has read, through the clone, the flag another call has set, while
\* the other task holds the lock of the ratchet the session and the clone
\* share.
C23_Witness ==
    \E t, u \in Tasks :
        /\ tasks[t].pc = "done" /\ tasks[t].op = "backed_up"
        /\ tasks[t].self = 2 /\ tasks[t].res = TRUE
        /\ tasks[u].pc = "locked" /\ tasks[u].op = "decrypt"
        /\ lock[sessions[2].inner] = u
        /\ cells[sessions[2].inner].latest = 0

\* C27: no call of decrypt, export_at_index, pickle, to_backup, compare,
\* mark_as_backed_up, reset_backup_state, backed_up or the backup key's
\* encrypt changes a session's session_id, first_known_index, room_id,
\* key_source, algorithm, history_visibility or creator info, nor the key
\* and first index of its ratchet; only mark_as_backed_up and
\* reset_backup_state change a backed_up flag, so decrypt changes at most
\* the ratchet.
C27_IdentityNeverChanges ==
    /\ [][/\ sessions' = sessions
          /\ \A c \in DOMAIN cells :
                cells'[c].key = cells[c].key /\ cells'[c].initial = cells[c].initial]_vars
    /\ [][\A f \in DOMAIN flags :
            flags'[f] # flags[f] =>
                \E t \in Tasks :
                    /\ tasks[t].pc = "idle" /\ tasks'[t].pc = "done"
                    /\ tasks'[t].op \in {"mark_as_backed_up", "reset_backup_state"}
                    /\ sessions[tasks'[t].self].backed_up = f]_vars

\* A decrypt has advanced the ratchet of a session that was marked as backed
\* up, and a task has encrypted a session for the backup.
C27_Witness ==
    /\ cells[sessions[1].inner].latest # cells[sessions[1].inner].initial
    /\ flags[sessions[1].backed_up] = TRUE
    /\ \E t \in Tasks : tasks[t].pc = "done" /\ tasks[t].op = "encrypt"


(***************************************************************************)
(* The backup round trip (specification SpecBackup)                        *)
(***************************************************************************)
\* Session j was restored from the opened backup record of session i.
RestoredFromBackupOf(i, j) ==
    /\ made[j].ctor = "from_backup"
    /\ "src" \in DOMAIN made[j]
    /\ made[j].src = i

\* C21: the envelope of encrypt(s) opens under the private half of the
\* backup key, the record it holds has the creator identity key of s and the
\* session id of s, and the session restored from the record under the room
\* of s has the room id and the first_known_index of s.
C21_BackupRoundTrip ==
    /\ \A t \in Tasks :
          /\ tasks[t].pc = "done" /\ tasks[t].op = "encrypt" /\ ~tasks[t].res.panic
          /\ backup_key.val.key = megolm_v1_public_key("backupSk")
          => decrypt_session_data("backupSk", tasks[t].res.session_data).ok
    /\ \A i, j \in Objects :
          RestoredFromBackupOf(i, j) =>
              LET key == made[j].input.backup IN
              /\ key.sender_key = sessions[i].creator_info.curve25519_key
              /\ InnerSessionId(InnerImport(key.session_key, SessionConfigDefault))
                    = sessions[i].session_id
              /\ sessions[j].room_id = sessions[i].room_id
              /\ sessions[j].first_known_index = sessions[i].first_known_index

\* A session that starts after the first message was encrypted for the
\* backup, and the record was opened and restored.
C21_Witness ==
    \E i, j \in Objects :
        /\ RestoredFromBackupOf(i, j)
        /\ sessions[i].first_known_index > 0


(***************************************************************************)
(* The bytes under the backup MAC (specification SpecSign)                 *)
(***************************************************************************)
\* The last operation was a sign that succeeded: the envelope is its output.
JustSigned == verdict.some /\ verdict.val.op = "sign" /\ verdict.val.res.ok

\* The bytes under the backup MAC of a signed envelope, member by member, and
\* the names of the members in the order the bytes list them.
SignedBytes(value) == base64_decode(BackupMac(value).val).val.message
Names(bytes) == [i \in 1 .. Len(bytes) |-> bytes[i][1]]

\* The extra fields of an envelope in the order the envelope keeps them.
ExtraNames(value) == SelectSeq(<<"aad", "version">>, LAMBDA k : k \in DOMAIN value.other)

\* What sign and verify authenticate is the same on the same envelope: an
\* envelope verify accepts under a key carries the MAC sign makes under it.
SameForSignAndVerify ==
    \A key \in MacKeys :
        Verified(key) /\ verdict.val.res.ok =>
            BackupMac(envelope.val) = BackupMac(sign(key, envelope.val).val)

\* C31 as stated: the bytes sign and verify authenticate list ephemeral,
\* ciphertext, mac and then the extra fields in their order, and are the
\* same for sign and verify on the same envelope.
C31_SignedBytesInListedOrder ==
    /\ JustSigned =>
          Names(SignedBytes(envelope.val))
            = <<"ephemeral", "ciphertext", "mac">> \o ExtraNames(envelope.val)
    /\ SameForSignAndVerify

\* C31, amended: the bytes sign and verify authenticate list the fields
\* ephemeral, ciphertext, mac and the extra fields in the order of their
\* names (aad, ciphertext, ephemeral, mac, version), each with its value, and
\* are the same for sign and verify on the same envelope.
C31_SignedBytesInNameOrder ==
    /\ JustSigned =>
          LET value == envelope.val
              bytes == SignedBytes(value)
          IN /\ Names(bytes)
                  = (IF "aad" \in DOMAIN value.other THEN <<"aad">> ELSE <<>>)
                    \o <<"ciphertext", "ephemeral", "mac">>
                    \o (IF "version" \in DOMAIN value.other THEN <<"version">> ELSE <<>>)
             /\ \A i \in 1 .. Len(bytes) :
                   bytes[i][2] = IF bytes[i][1] \in DOMAIN value.other
                                 THEN value.other[bytes[i][1]]
                                 ELSE JString(base64_encode(value[bytes[i][1]]))
    /\ SameForSignAndVerify

\* An envelope with both extra fields was signed.
C31_Witness == JustSigned /\ DOMAIN envelope.val.other = {"aad", "version"}


\* C33: the backup MAC does not cover the unsigned block. Signing a signed
\* envelope again with the same key yields the same envelope with the same
\* MAC, and a sign puts in place of the unsigned block, whatever it held,
\* one that holds the new backup MAC, which is the MAC of the envelope
\* without an unsigned block.
C33_SignReplacesUnsigned ==
    /\ [](JustSigned => sign(verdict.val.key, envelope.val) = Ok(envelope.val))
    /\ [][JustSigned' /\ envelope' # envelope =>
            /\ envelope'.val = [envelope.val EXCEPT !.unsigned = envelope'.val.unsigned]
            /\ envelope'.val.unsigned
                 = sign(verdict'.val.key, [envelope.val EXCEPT !.unsigned = None]).val.unsigned
            /\ BackupMac(envelope'.val).some
            /\ base64_decode(BackupMac(envelope'.val).val).ok]_vars

\* A signed envelope with one extra field whose unsigned block holds a
\* decodable backup MAC.
C33_Witness ==
    /\ JustSigned
    /\ DOMAIN envelope.val.other = {"aad"}
    /\ base64_decode(BackupMac(envelope.val).val).ok


(***************************************************************************)
(* The pickle round trip (specification SpecPickle)                        *)
(***************************************************************************)
\* C32: a session restored by from_pickle from the pickle of a session has
\* the key_source (with the hint of a Backup), room_id, creator identity
\* key, claimed signing keys, algorithm and history_visibility of that
\* session, and starts with the backed_up value the session had when it was
\* pickled.
C32_PickleKeepsFields ==
    /\ [](\A i, j \in Objects :
            RestoredFrom(j, i) =>
                /\ sessions[j].key_source = sessions[i].key_source
                /\ sessions[j].room_id = sessions[i].room_id
                /\ sessions[j].creator_info = sessions[i].creator_info
                /\ sessions[j].algorithm = sessions[i].algorithm
                /\ sessions[j].history_visibility = sessions[i].history_visibility)
    /\ [][\A t \in Tasks :
            /\ tasks[t].pc = "locked" /\ tasks[t].op = "pickle" /\ tasks'[t].pc = "done"
                => tasks'[t].res.backed_up = backed_up(tasks[t].self)
            /\ tasks[t].pc = "done" /\ tasks[t].op = "pickle"
               /\ Len(sessions') = Len(sessions) + 1
               /\ made'[Len(sessions')].ctor = "from_pickle"
                => flags'[sessions'[Len(sessions')].backed_up] = tasks[t].res.backed_up]_vars

\* A session that came from a backup with a hint was marked as backed up,
\* pickled and restored, and the restored session is marked.
C32_Witness ==
    \E i, j \in Objects :
        /\ RestoredFrom(j, i)
        /\ sessions[i].key_source.tag = "Backup"
        /\ sessions[i].key_source.unauthenticated # None
        /\ made[j].input.backed_up = TRUE
        /\ backed_up(j) = TRUE


(***************************************************************************)
(* The algorithm of a forwarded session (specification Spec)               *)
(***************************************************************************)
\* C34: a session built from a forwarded room key has the algorithm of the
\* content variant it was built from (v1 content, v1 algorithm; v2 content,
\* v2 algorithm), and that algorithm is the one of the configuration its
\* ratchet was imported with.
C34_ForwardedAlgorithmOfVariant ==
    \A i \in Objects :
        made[i].ctor = "forwarded" =>
            /\ sessions[i].algorithm = made[i].input.content.algorithm
            /\ session_config(sessions[i].algorithm) = Some(Ratchet(i).config)


(***************************************************************************)
(* The backed_up flag of a new session (specification SpecPickle)          *)
(***************************************************************************)
\* Task t completes mark_as_backed_up or reset_backup_state in this step.
WritesFlag(t) ==
    /\ tasks[t].pc = "idle" /\ tasks'[t].pc = "done"
    /\ tasks'[t].op \in {"mark_as_backed_up", "reset_backup_state"}

\* C35: a session built by new, from_export, from_backup or from a forwarded
\* key starts with backed_up = false whatever its input; a clone reads the
\* value of the session it was cloned from after every mark or reset through
\* either; a session restored by from_pickle has a flag of its own, which a
\* mark or reset through the pickled session leaves as it is.
C35_FlagStartsClearAndIsShared ==
    /\ [][Len(sessions') = Len(sessions) + 1
          /\ made'[Len(sessions')].ctor \in {"new", "from_export", "from_backup", "forwarded"}
            => flags'[sessions'[Len(sessions')].backed_up] = FALSE]_vars
    /\ [](\A i, j \in Objects :
            made[j].ctor = "clone" /\ made[j].src = i => backed_up(j) = backed_up(i))
    /\ [][\A t \in Tasks :
            WritesFlag(t) =>
                \A i, j \in Objects :
                    /\ made[j].ctor = "clone" /\ made[j].src = i /\ tasks'[t].self \in {i, j}
                        => /\ flags'[sessions[i].backed_up]
                                = (tasks'[t].op = "mark_as_backed_up")
                           /\ flags'[sessions[j].backed_up]
                                = (tasks'[t].op = "mark_as_backed_up")
                    /\ RestoredFrom(j, i) /\ tasks'[t].self = i
                        => /\ flags'[sessions[j].backed_up] = flags[sessions[j].backed_up]
                           /\ flags'[sessions[i].backed_up]
                                = (tasks'[t].op = "mark_as_backed_up")]_vars

\* A session built from a backup was cloned and marked as backed up through
\* the clone: the session itself reads as backed up.
C35_Witness ==
    /\ Len(sessions) = 2
    /\ made[1].ctor = "from_backup"
    /\ made[2].ctor = "clone"
    /\ \E t \in Tasks :
          tasks[t].pc = "done" /\ tasks[t].op = "mark_as_backed_up" /\ tasks[t].self = 2
    /\ backed_up(1) = TRUE


(***************************************************************************)
(* Termination under fair scheduling (specification SpecFair)              *)
(***************************************************************************)
\* The task is inside a call: it waits for a lock or holds one.
Started(t) == tasks[t].pc \notin {"idle", "done"}

====
